---- MODULE Spec2Model ----
(***************************************************************************)
(* Contract analysis backend: rule engine, deviation engine, risk scorer,  *)
(* clause segmenter.  Texts are TLA+ strings handled character by          *)
(* character; scores are fixed-point integers.                              *)
(***************************************************************************)
EXTENDS Integers, Sequences, FiniteSets, TLC

VARIABLES
    violations,      \* risk scorer: legal_check['violations'] of the clause being scored
    deviations,      \* risk scorer: deviation['deviations'] of the clause being scored
    risk_score,      \* risk scorer: result of calculate_risk_score, hundredths of a point
    clause_results,  \* document aggregate: risk_score of every clause result, in order
    doc_risk,        \* document aggregate: result of aggregate_document_risk
    clause_text,     \* clause pipeline: the clause being analysed
    fair_file,       \* clause pipeline: content of FAIR_CONTRACT_JSON, NoFile if absent
    relevant_law,    \* clause pipeline: result of find_relevant_law
    legal_check,     \* clause pipeline: result of verify_clause
    deviation,       \* clause pipeline: result of check_deviation
    pc,              \* clause pipeline: next step of the loop body
    doc_text,        \* segmenter: the extracted document text
    clauses,         \* segmenter: result of split_clauses(doc_text)
    reseg,           \* segmenter: one clause of the result and its own segmentation
    seg_pc,          \* segmenter: next step
    explanation,     \* explanation: result of generate_explanation
    sessions,        \* session manager: self.sessions, session id -> session record
    now,             \* session manager: datetime.utcnow(), in minutes
    next_id,         \* session manager: number of the next uuid4 handed out
    got,             \* session manager: the last get_session call and what it returned
    stored,          \* session manager: session id -> data of the last store_analysis call
    expired_sessions, \* session manager: expired_sessions of the last cleanup run
    request,         \* analyze_contract: the uploaded file, as request.files presents it
    req_pc,          \* analyze_contract: next step of the handler
    session_id,      \* analyze_contract: the session created for the request
    results,         \* analyze_contract: the clause results appended so far
    response,        \* analyze_contract: the response sent
    retrieval_failed_at, \* analyze_contract: index of the clause whose law retrieval raised
    served,          \* analyze_contract: number of requests answered so far
    vector_store,    \* app: the global law index, None until a request builds it
    built,           \* app: number of VectorStore objects constructed so far
    worker,          \* app: request thread -> its position and requests handled
    lock,            \* session manager: the threads inside "with self.lock"
    calls            \* session manager: thread -> the operation it is executing

vars == <<violations, deviations, risk_score, clause_results, doc_risk,
          clause_text, fair_file, relevant_law, legal_check, deviation, pc,
          doc_text, clauses, reseg, seg_pc, explanation,
          sessions, now, next_id, got, stored, expired_sessions,
          request, req_pc, session_id, results, response, retrieval_failed_at,
          served, vector_store, built, worker, lock, calls>>

scoreVars == <<violations, deviations, risk_score>>
docVars   == <<clause_results, doc_risk>>
clauseVars == <<clause_text, fair_file, relevant_law, legal_check, deviation, pc>>
segVars   == <<doc_text, clauses, reseg, seg_pc>>
explVars  == <<explanation>>
sessVars  == <<sessions, now, next_id, got, stored, expired_sessions>>
reqVars   == <<request, req_pc, session_id, results, response, retrieval_failed_at,
               served>>
concVars  == <<vector_store, built, worker, lock, calls>>
extVars   == <<explVars, sessVars, reqVars, concVars>>

(***************************************************************************)
(* Bounds                                                                  *)
(***************************************************************************)
MaxViolations == 2     \* longest violation list explored
MaxFindings   == 5     \* most violations + deviations explored on one clause
MaxClauses    == 3     \* most clause results in one document
MaxFragments  == 2     \* most sentences joined into one clause text
MaxSections   == 3     \* most passages joined into one document text
MaxExplained  == 4     \* longest violation list explained
MaxSessions   == 1     \* most sessions created in one run
MaxRequests   == 2     \* most uploads handled in one run
MaxTime       == 60    \* last minute of the clock
MaxThreads    == 2     \* most threads running at the same time
TickMinutes   == 15    \* minutes between two observed instants

NotScored == -1      \* risk_score before calculate_risk_score has run

Min(a, b) == IF a < b THEN a ELSE b
Max(a, b) == IF a > b THEN a ELSE b

RECURSIVE SumSeq(_)
SumSeq(s) == IF s = <<>> THEN 0 ELSE Head(s) + SumSeq(Tail(s))

RECURSIVE MaxSeq(_)
MaxSeq(s) == IF s = <<>> THEN 0 ELSE Max(Head(s), MaxSeq(Tail(s)))

(***************************************************************************)
(* config.py                                                               *)
(***************************************************************************)
\* RISK_WEIGHTS, in percent (0.5, 0.3, 0.2)
RISK_WEIGHTS ==
    [legal_invalidity |-> 50, deviation_severity |-> 30, frequency_factor |-> 20]

ViolationTypes ==
    {"section_27_violation", "section_23_violation", "section_74_violation",
     "ip_overreach", "unfair_terms", "unclear_terms"}

Severities == {"critical", "high", "medium", "low"}

\* SEVERITY_SCORES.get(violation_type, 0): "unfair_terms" has no entry
SEVERITY_SCORES(violation_type) ==
    CASE violation_type = "section_27_violation" -> 90
      [] violation_type = "section_23_violation" -> 95
      [] violation_type = "section_74_violation" -> 70
      [] violation_type = "ip_overreach"         -> 60
      [] violation_type = "unclear_terms"        -> 40
      [] violation_type = "no_violation"         -> 0
      [] OTHER                                   -> 0

(***************************************************************************)
(* risk_score.py.  Sub-scores are in tenths of a point, the weighted sum   *)
(* in thousandths, the rounded result in hundredths.                       *)
(***************************************************************************)
\* round(x, 2): thousandths -> hundredths, ties to even
Round2(x) ==
    LET q == x \div 10
        r == x % 10
    IN  IF r > 5 \/ (r = 5 /\ q % 2 = 1) THEN q + 1 ELSE q

\* mutant: the score of the last violation instead of the maximum
calculate_legal_invalidity_score_last(legal) ==
    IF legal.violations = <<>> THEN 0
    ELSE LET vs == legal.violations
             max_score == SEVERITY_SCORES(vs[Len(vs)].type)
             critical_count ==
                 Cardinality({i \in 1..Len(vs) : vs[i].severity = "critical"})
         IN  IF critical_count > 1 THEN Min(1000, max_score * 12)
             ELSE max_score * 10

\* mutant: no boost for several critical violations
calculate_legal_invalidity_score_unboosted(legal) ==
    IF legal.violations = <<>> THEN 0
    ELSE LET vs == legal.violations
         IN  MaxSeq([i \in 1..Len(vs) |-> SEVERITY_SCORES(vs[i].type)]) * 10

calculate_legal_invalidity_score(legal) ==
    IF legal.violations = <<>> THEN 0
    ELSE LET vs == legal.violations
             max_score ==
                 MaxSeq([i \in 1..Len(vs) |-> SEVERITY_SCORES(vs[i].type)])
             critical_count ==
                 Cardinality({i \in 1..Len(vs) : vs[i].severity = "critical"})
         IN  IF critical_count > 1 THEN Min(1000, max_score * 12)
             ELSE max_score * 10

severity_points(severity) ==
    CASE severity = "critical" -> 30
      [] severity = "high"     -> 20
      [] severity = "medium"   -> 12
      [] severity = "low"      -> 5
      [] OTHER                 -> 0

calculate_deviation_score(dev) ==
    IF ~dev.has_deviation THEN 0
    ELSE LET ds == dev.deviations
             total_score ==
                 SumSeq([i \in 1..Len(ds) |-> severity_points(ds[i].severity)])
         IN  Min(total_score, 100) * 10

calculate_frequency_score(legal, dev) ==
    LET total_issues == Len(legal.violations) + Len(dev.deviations)
    IN  Min(total_issues * 20, 100) * 10

\* mutant: the frequency sub-score enters unweighted and the sum is not clamped
calculate_risk_score_unclamped(legal, dev) ==
    LET legal_score     == calculate_legal_invalidity_score(legal)
        deviation_score == calculate_deviation_score(dev)
        frequency_score == calculate_frequency_score(legal, dev)
    IN  Round2(legal_score * RISK_WEIGHTS.legal_invalidity
               + deviation_score * RISK_WEIGHTS.deviation_severity
               + frequency_score * 100)

calculate_risk_score(legal, dev) ==
    LET legal_score     == calculate_legal_invalidity_score(legal)
        deviation_score == calculate_deviation_score(dev)
        frequency_score == calculate_frequency_score(legal, dev)
        weighted == legal_score * RISK_WEIGHTS.legal_invalidity
                    + deviation_score * RISK_WEIGHTS.deviation_severity
                    + frequency_score * RISK_WEIGHTS.frequency_factor
    IN  Round2(Max(0, Min(100000, weighted)))

\* mutant: an empty clause is rated by the medium branch
get_risk_level_shifted(score) ==
    IF score >= 8500 THEN "critical"
    ELSE IF score >= 6000 THEN "high"
    ELSE IF score >= 0 THEN "medium"
    ELSE "low"

get_risk_level(score) ==
    IF score >= 8500 THEN "critical"
    ELSE IF score >= 6000 THEN "high"
    ELSE IF score >= 3000 THEN "medium"
    ELSE "low"

\* the two dicts (legal_check, deviation) calculate_risk_score receives (app.py, test_backend.py)
LegalCheckOf(vs) == [violations |-> vs]
DeviationOf(ds)  == [has_deviation |-> Len(ds) > 0, deviations |-> ds]

\* mutant: the document level is the level of the mean score
aggregate_document_risk_mean(rs) ==
    IF rs = <<>> THEN
        [overall_score |-> 0, risk_level |-> "low", critical_count |-> 0,
         high_count |-> 0, medium_count |-> 0, low_count |-> 0]
    ELSE
        LET n == Len(rs)
            total_score == SumSeq([i \in 1..n |-> rs[i].risk_score])
            counts(level) ==
                Cardinality({i \in 1..n : get_risk_level(rs[i].risk_score) = level})
        IN  [overall_score |-> total_score \div n,
             risk_level |-> get_risk_level(total_score \div n),
             critical_count |-> counts("critical"), high_count |-> counts("high"),
             medium_count |-> counts("medium"), low_count |-> counts("low"),
             total_clauses |-> n]

\* round(total / n, 2) on hundredths, ties to even
RoundDiv(total, n) ==
    LET q == total \div n
        r == total % n
    IN  IF 2 * r > n \/ (2 * r = n /\ q % 2 = 1) THEN q + 1 ELSE q

\* mutant: one critical clause alone does not make the document critical
aggregate_document_risk_two_critical(rs) ==
    IF rs = <<>> THEN
        [overall_score |-> 0, risk_level |-> "low", critical_count |-> 0,
         high_count |-> 0, medium_count |-> 0, low_count |-> 0]
    ELSE
        LET n == Len(rs)
            total_score == SumSeq([i \in 1..n |-> rs[i].risk_score])
            counts(level) ==
                Cardinality({i \in 1..n : get_risk_level(rs[i].risk_score) = level})
            overall_level ==
                IF counts("critical") > 1 THEN "critical"
                ELSE IF counts("high") > 0 THEN "high"
                ELSE IF counts("medium") > 0 THEN "medium"
                ELSE "low"
        IN  [overall_score |-> RoundDiv(total_score, n),
             risk_level |-> overall_level,
             critical_count |-> counts("critical"), high_count |-> counts("high"),
             medium_count |-> counts("medium"), low_count |-> counts("low"),
             total_clauses |-> n]

aggregate_document_risk(rs) ==
    IF rs = <<>> THEN
        [overall_score |-> 0, risk_level |-> "low", critical_count |-> 0,
         high_count |-> 0, medium_count |-> 0, low_count |-> 0]
    ELSE
        LET n == Len(rs)
            total_score == SumSeq([i \in 1..n |-> rs[i].risk_score])
            counts(level) ==
                Cardinality({i \in 1..n : get_risk_level(rs[i].risk_score) = level})
            overall_level ==
                IF counts("critical") > 0 THEN "critical"
                ELSE IF counts("high") > 0 THEN "high"
                ELSE IF counts("medium") > 0 THEN "medium"
                ELSE "low"
        IN  [overall_score |-> RoundDiv(total_score, n),
             risk_level |-> overall_level,
             critical_count |-> counts("critical"), high_count |-> counts("high"),
             medium_count |-> counts("medium"), low_count |-> counts("low"),
             total_clauses |-> n]

(***************************************************************************)
(* Python str and re primitives on TLA+ strings                            *)
(***************************************************************************)
Char(s, i) == SubSeq(s, i, i)

UpperCase == <<"A", "B", "C", "D", "E", "F", "G", "H", "I", "J", "K", "L", "M",
               "N", "O", "P", "Q", "R", "S", "T", "U", "V", "W", "X", "Y", "Z">>
LowerCase == <<"a", "b", "c", "d", "e", "f", "g", "h", "i", "j", "k", "l", "m",
               "n", "o", "p", "q", "r", "s", "t", "u", "v", "w", "x", "y", "z">>
Digits    == <<"0", "1", "2", "3", "4", "5", "6", "7", "8", "9">>

UpperSet == {UpperCase[k] : k \in 1..26}
LowerSet == {LowerCase[k] : k \in 1..26}
DigitSet == {Digits[k] : k \in 1..10}
\* upper-case letter -> lower-case letter
LowerOf  == [c \in UpperSet |-> LowerCase[CHOOSE k \in 1..26 : UpperCase[k] = c]]
\* digit character -> its value
DigitVal == [c \in DigitSet |-> (CHOOSE k \in 1..10 : Digits[k] = c) - 1]

IsUpper(c) == c \in UpperSet
IsLower(c) == c \in LowerSet
IsAlpha(c) == IsUpper(c) \/ IsLower(c)
IsDigit(c) == c \in DigitSet
\* \s and str.strip(): space, tab, newline, carriage return, form feed
IsSpace(c) == c \in {" ", "\t", "\n", "\r", "\f"}

LowerChar(c) == IF c \in UpperSet THEN LowerOf[c] ELSE c

\* str.lower() of s[p..]: copy up to the next upper-case letter, map it, go on
RECURSIVE LowerFrom(_, _)
LowerFrom(s, p) ==
    LET uppers == {q \in p..Len(s) : IsUpper(Char(s, q))}
    IN  IF uppers = {} THEN SubSeq(s, p, Len(s))
        ELSE LET q == CHOOSE u \in uppers : \A g \in uppers : u <= g
             IN  SubSeq(s, p, q - 1) \o LowerOf[Char(s, q)] \o LowerFrom(s, q + 1)
lower(s) == LowerFrom(s, 1)

\* s[p:].startswith(w), 1-based p
StartsWithAt(s, p, w) ==
    p + Len(w) - 1 <= Len(s) /\ SubSeq(s, p, p + Len(w) - 1) = w

\* keyword in s
Contains(s, keyword) == \E p \in 1..(Len(s) - Len(keyword) + 1) : StartsWithAt(s, p, keyword)

\* any(keyword in s for keyword in keywords)
ContainsAny(s, keywords) == \E k \in 1..Len(keywords) : Contains(s, keywords[k])

\* first position at or after p that is not a digit / not whitespace
RECURSIVE DigitsEnd(_, _)
DigitsEnd(s, p) == IF p <= Len(s) /\ IsDigit(Char(s, p)) THEN DigitsEnd(s, p + 1) ELSE p
RECURSIVE SpacesEnd(_, _)
SpacesEnd(s, p) == IF p <= Len(s) /\ IsSpace(Char(s, p)) THEN SpacesEnd(s, p + 1) ELSE p

\* int() of a digit string
RECURSIVE ToInt(_)
ToInt(ds) ==
    IF ds = "" THEN 0
    ELSE 10 * ToInt(SubSeq(ds, 1, Len(ds) - 1)) + DigitVal[Char(ds, Len(ds))]

\* re.findall(r'(\d+)\s*(?:a1|a2|...)', s) scanning from position p: the
\* captured digit strings of the leftmost non-overlapping matches; alts lists the alternatives in the order the regex tries them
RECURSIVE FindNumbersFrom(_, _, _)
FindNumbersFrom(s, p, alts) ==
    LET digits == {q \in p..Len(s) : IsDigit(Char(s, q))}
    IN  IF digits = {} THEN <<>>
        ELSE LET q == CHOOSE d \in digits : \A g \in digits : d <= g
                 e == DigitsEnd(s, q)
                 w == SpacesEnd(s, e)
                 hits == {k \in 1..Len(alts) : StartsWithAt(s, w, alts[k])}
             IN  IF hits = {} THEN FindNumbersFrom(s, q + 1, alts)
                 ELSE LET k == CHOOSE h \in hits : \A g \in hits : h <= g
                      IN  <<SubSeq(s, q, e - 1)>>
                              \o FindNumbersFrom(s, w + Len(alts[k]), alts)

findall_numbers(s, alts) == FindNumbersFrom(s, 1, alts)

\* the relevant_law argument when the retrieval found nothing
None == [section |-> "None"]

(***************************************************************************)
(* rule_engine.py                                                          *)
(***************************************************************************)
NoViolation == [type |-> "None"]

non_compete_keywords ==
    <<"non-compete", "non compete", "not compete", "refrain from engaging",
      "shall not engage", "prohibited from working", "restrain from",
      "covenant not to compete", "restriction on employment">>
exception_keywords == <<"sale of business", "goodwill", "transfer of business">>

check_section_27(text) ==
    LET clause_lower == lower(text)
        has_non_compete == ContainsAny(clause_lower, non_compete_keywords)
        is_exception == ContainsAny(clause_lower, exception_keywords)
    IN  IF has_non_compete /\ ~is_exception
        THEN [type |-> "section_27_violation", severity |-> "critical",
              law |-> "Section 27, Indian Contract Act, 1872",
              description |-> "Non-compete clause detected. Agreements restraining lawful profession/trade are VOID in India.",
              recommendation |-> "Remove or modify clause. Non-compete restrictions are unenforceable except in sale of business."]
        ELSE NoViolation

unlawful_keywords ==
    <<"illegal", "fraudulent", "defeat the law", "circumvent",
      "evade", "money laundering", "bribe", "kickback">>

check_section_23(text) ==
    LET clause_lower == lower(text)
    IN  IF ContainsAny(clause_lower, unlawful_keywords)
        THEN [type |-> "section_23_violation", severity |-> "critical",
              law |-> "Section 23, Indian Contract Act, 1872",
              description |-> "Clause may involve unlawful consideration or object.",
              recommendation |-> "Remove clause. Agreements with unlawful objects are void."]
        ELSE NoViolation

rule_penalty_keywords == <<"penalty", "liquidated damages", "damages", "compensation for breach">>
\* (?:lakh|crore|rupees|rs\.?|inr)
amount_units == <<"lakh", "crore", "rupees", "rs.", "rs", "inr">>
\* (?:%|percent)
percent_units == <<"%", "percent">>
absolute_keywords == <<"shall pay", "must pay", "liable to pay", "required to pay">>

\* int(pct) > 20
RulePenaltyCeiling == 20

\* check_section_74 reading only the first percentage figure
check_section_74_first_only(text) ==
    LET clause_lower == lower(text)
        has_penalty == ContainsAny(clause_lower, rule_penalty_keywords)
        amounts == findall_numbers(clause_lower, amount_units)
        percentages == findall_numbers(clause_lower, percent_units)
        is_excessive ==
            percentages # <<>> /\ ToInt(percentages[1]) > RulePenaltyCeiling
        is_absolute == ContainsAny(clause_lower, absolute_keywords)
    IN  IF has_penalty /\ (is_excessive \/ (amounts # <<>> /\ is_absolute))
        THEN [type |-> "section_74_violation", severity |-> "high",
              law |-> "Section 74, Indian Contract Act, 1872",
              description |-> "Penalty clause may be excessive. Courts award only reasonable compensation, not punitive damages.",
              recommendation |-> "Ensure penalty is reasonable estimate of actual loss, not punitive."]
        ELSE NoViolation

\* penalty detector: an excessive percentage, or an amount with absolute wording
check_section_74(text) ==
    LET clause_lower == lower(text)
        has_penalty == ContainsAny(clause_lower, rule_penalty_keywords)
        amounts == findall_numbers(clause_lower, amount_units)
        percentages == findall_numbers(clause_lower, percent_units)
        is_excessive ==
            \E i \in 1..Len(percentages) : ToInt(percentages[i]) > RulePenaltyCeiling
        is_absolute == ContainsAny(clause_lower, absolute_keywords)
    IN  IF has_penalty /\ (is_excessive \/ (amounts # <<>> /\ is_absolute))
        THEN [type |-> "section_74_violation", severity |-> "high",
              law |-> "Section 74, Indian Contract Act, 1872",
              description |-> "Penalty clause may be excessive. Courts award only reasonable compensation, not punitive damages.",
              recommendation |-> "Ensure penalty is reasonable estimate of actual loss, not punitive."]
        ELSE NoViolation

rule_ip_keywords ==
    <<"intellectual property", "ip", "copyright", "patent", "invention", "creation">>
overreach_keywords ==
    <<"all work", "any work", "everything created", "all inventions",
      "automatically assigned", "perpetual", "irrevocable", "worldwide",
      "including personal projects", "off-duty", "outside work hours">>

check_ip_overreach(text) ==
    LET clause_lower == lower(text)
    IN  IF ContainsAny(clause_lower, rule_ip_keywords)
           /\ ContainsAny(clause_lower, overreach_keywords)
        THEN [type |-> "ip_overreach", severity |-> "medium",
              law |-> "Copyright Act, 1957 / Contract Law Principles",
              description |-> "IP assignment clause is overly broad. May claim rights to work unrelated to employment.",
              recommendation |-> "Limit IP assignment to work created during employment for company purposes only."]
        ELSE NoViolation

unfair_keywords ==
    <<"at sole discretion", "sole discretion of company", "without cause",
      "without reason", "without notice", "unilateral right",
      "company may change", "company reserves the right">>

UnfairTermsViolation ==
    [type |-> "unfair_terms", severity |-> "medium",
     law |-> "Section 16, Indian Contract Act (Undue Influence) / General Contract Principles",
     description |-> "Clause appears one-sided with excessive discretion to one party.",
     recommendation |-> "Add mutual consent requirements or reasonable limitations to discretionary powers."]

\* mutant: only the two "sole discretion" phrasings are recognised
check_unfair_terms_narrow(text) ==
    LET clause_lower == lower(text)
    IN  IF ContainsAny(clause_lower, SubSeq(unfair_keywords, 1, 2))
        THEN UnfairTermsViolation ELSE NoViolation

check_unfair_terms(text) ==
    LET clause_lower == lower(text)
    IN  IF ContainsAny(clause_lower, unfair_keywords)
        THEN UnfairTermsViolation ELSE NoViolation

vague_keywords == <<"reasonable time", "as appropriate", "if necessary", "at discretion">>
\* len(text) < 20
ShortClauseLength == 20

check_clarity(text) ==
    IF Len(text) < ShortClauseLength
    THEN [type |-> "unclear_terms", severity |-> "low",
          description |-> "Clause is very short and may lack detail.",
          recommendation |-> "Ensure clause has sufficient detail and clarity."]
    ELSE LET clause_lower == lower(text)
             vague_count ==
                 Cardinality({k \in 1..Len(vague_keywords) :
                                 Contains(clause_lower, vague_keywords[k])})
         IN  IF vague_count >= 2
             THEN [type |-> "unclear_terms", severity |-> "low",
                   description |-> "Clause contains vague terms that may lead to disputes.",
                   recommendation |-> "Define vague terms more specifically."]
             ELSE NoViolation

\* violations.append(x) / applicable_sections.append(label) when the detector fired
AppendIf(list, cond, x) == IF cond THEN Append(list, x) ELSE list

\* the six detectors in execution order with their section labels ("" = none)
RunDetectors(text) ==
    <<[v |-> check_section_27(text),   label |-> "Section 27"],
      [v |-> check_section_23(text),   label |-> "Section 23"],
      [v |-> check_section_74(text),   label |-> "Section 74"],
      [v |-> check_ip_overreach(text), label |-> "Copyright Act / IP Law"],
      [v |-> check_unfair_terms(text), label |-> "Section 16"],
      [v |-> check_clarity(text),      label |-> ""]>>

RECURSIVE CollectViolations(_, _)
CollectViolations(found, i) ==
    IF i > Len(found) THEN <<>>
    ELSE AppendIf(<<>>, found[i].v # NoViolation, found[i].v)
             \o CollectViolations(found, i + 1)

RECURSIVE CollectSections(_, _)
CollectSections(found, i) ==
    IF i > Len(found) THEN <<>>
    ELSE AppendIf(<<>>, found[i].v # NoViolation /\ found[i].label # "", found[i].label)
             \o CollectSections(found, i + 1)

RuleRiskLevel(vs) ==
    IF vs = <<>> THEN "low"
    ELSE LET max_severity == MaxSeq([i \in 1..Len(vs) |-> SEVERITY_SCORES(vs[i].type)])
         IN  IF max_severity >= 85 THEN "critical"
             ELSE IF max_severity >= 60 THEN "high"
             ELSE IF max_severity >= 30 THEN "medium"
             ELSE "low"

\* mutant: the detectors stop at the first violation found
verify_clause_first_only(text, law) ==
    LET found == RunDetectors(text)
        all == CollectViolations(found, 1)
        vs == IF all = <<>> THEN <<>> ELSE <<all[1]>>
    IN  [is_valid |-> {i \in 1..Len(vs) : vs[i].severity \in {"critical", "high"}} = {},
         violations |-> vs,
         risk_level |-> RuleRiskLevel(vs),
         applicable_sections |-> CollectSections(found, 1),
         total_violations |-> Len(vs)]

\* mutant: only critical violations make a clause invalid
verify_clause_critical_only(text, law) ==
    LET found == RunDetectors(text)
        vs == CollectViolations(found, 1)
    IN  [is_valid |-> {i \in 1..Len(vs) : vs[i].severity = "critical"} = {},
         violations |-> vs,
         risk_level |-> RuleRiskLevel(vs),
         applicable_sections |-> CollectSections(found, 1),
         total_violations |-> Len(vs)]

\* mutant: the matched law's section is added to the applicable sections
verify_clause_law_label(text, law) ==
    LET found == RunDetectors(text)
        vs == CollectViolations(found, 1)
    IN  [is_valid |-> {i \in 1..Len(vs) : vs[i].severity \in {"critical", "high"}} = {},
         violations |-> vs,
         risk_level |-> RuleRiskLevel(vs),
         applicable_sections |->
             AppendIf(CollectSections(found, 1), law # None, law.section),
         total_violations |-> Len(vs)]

verify_clause(text, law) ==
    LET found == RunDetectors(text)
        vs == CollectViolations(found, 1)
    IN  [is_valid |-> {i \in 1..Len(vs) : vs[i].severity \in {"critical", "high"}} = {},
         violations |-> vs,
         risk_level |-> RuleRiskLevel(vs),
         applicable_sections |-> CollectSections(found, 1),
         total_violations |-> Len(vs)]

(***************************************************************************)
(* deviation_engine.py                                                     *)
(***************************************************************************)
NoDeviation == [type |-> "None"]
\* FAIR_CONTRACT_JSON does not exist
NoFile == [file |-> "absent"]

default_fair_standards ==
    [notice_period_days |-> 30, probation_months |-> 3, non_compete_months |-> 0,
     penalty_percentage |-> 10, ip_scope |-> "work-related only",
     termination_notice_days |-> 30, working_hours_per_week |-> 40]

load_fair_contract(file) == IF file = NoFile THEN default_fair_standards ELSE file

\* dict.get(key, default)
Get(d, key, default) == IF key \in DOMAIN d THEN d[key] ELSE default

duration_patterns ==
    <<[alts |-> <<"months", "month">>, unit |-> "months"],
      [alts |-> <<"years", "year">>,   unit |-> "years"],
      [alts |-> <<"days", "day">>,     unit |-> "days"]>>

\* one iteration of the duration_patterns loop; NoDeviation = fall through
DurationCheck(clause_lower, fair_standards, k) ==
    LET unit == duration_patterns[k].unit
        matches == findall_numbers(clause_lower, duration_patterns[k].alts)
    IN  IF matches = <<>> THEN NoDeviation
        ELSE LET duration == ToInt(matches[1])
                 fair_notice_days == Get(fair_standards, "notice_period_days", 30)
             IN  IF /\ Contains(clause_lower, "notice")
                    /\ unit = "days"
                    /\ 2 * duration > 3 * fair_notice_days
                 THEN [type |-> "excessive_notice_period", severity |-> "medium",
                       actual |-> ToString(duration) \o " " \o unit,
                       fair_standard |-> ToString(fair_notice_days) \o " days"]
                 ELSE IF /\ (Contains(clause_lower, "non-compete")
                               \/ Contains(clause_lower, "not compete"))
                         /\ duration > 0
                 THEN [type |-> "non_compete_duration", severity |-> "critical",
                       actual |-> ToString(duration) \o " " \o unit,
                       fair_standard |-> "0 (invalid in India)"]
                 ELSE NoDeviation

RECURSIVE DurationLoop(_, _, _)
DurationLoop(clause_lower, fair_standards, k) ==
    IF k > Len(duration_patterns) THEN NoDeviation
    ELSE LET r == DurationCheck(clause_lower, fair_standards, k)
         IN  IF r # NoDeviation THEN r
             ELSE DurationLoop(clause_lower, fair_standards, k + 1)

\* mutant: only the first duration pattern (months) is tried
check_duration_deviation_months_only(text, fair_standards) ==
    DurationCheck(lower(text), fair_standards, 1)

check_duration_deviation(text, fair_standards) ==
    DurationLoop(lower(text), fair_standards, 1)

dev_penalty_keywords == <<"penalty", "liquidated damages", "damages", "shall pay">>
\* (?:lakh|lakhs)
lakh_units == <<"lakh", "lakhs">>
\* int(amounts[0]) >= 5
SignificantLakhs == 5

check_penalty_deviation(text, fair_standards) ==
    LET clause_lower == lower(text)
        has_penalty == ContainsAny(clause_lower, dev_penalty_keywords)
        percentages == findall_numbers(clause_lower, percent_units)
        fair_pct == Get(fair_standards, "penalty_percentage", 10)
        amounts == findall_numbers(clause_lower, lakh_units)
    IN  IF ~has_penalty THEN NoDeviation
        ELSE IF percentages # <<>> /\ ToInt(percentages[1]) > fair_pct * 2
        THEN [type |-> "excessive_penalty", severity |-> "high",
              actual |-> ToString(ToInt(percentages[1])) \o "%",
              fair_standard |-> "<=" \o ToString(fair_pct) \o "%"]
        ELSE IF amounts # <<>> /\ ToInt(amounts[1]) >= SignificantLakhs
        THEN [type |-> "high_penalty_amount", severity |-> "medium",
              actual |-> amounts[1] \o " lakhs",
              fair_standard |-> "Reasonable compensation only"]
        ELSE NoDeviation

\* first indicator, in list order, that occurs in the clause (0 if none)
FirstIndicator(clause_lower, indicators) ==
    LET hits == {k \in 1..Len(indicators) : Contains(clause_lower, indicators[k].phrase)}
    IN  IF hits = {} THEN 0 ELSE CHOOSE h \in hits : \A g \in hits : h <= g

dev_ip_keywords == <<"intellectual property", "ip", "copyright", "invention", "work product">>
overreach_indicators ==
    <<[phrase |-> "all work", severity |-> "critical"],
      [phrase |-> "any work", severity |-> "critical"],
      [phrase |-> "personal projects", severity |-> "high"],
      [phrase |-> "outside work", severity |-> "high"],
      [phrase |-> "off-duty", severity |-> "high"],
      [phrase |-> "perpetual", severity |-> "medium"],
      [phrase |-> "irrevocable", severity |-> "medium"]>>

check_ip_scope_deviation(text, fair_standards) ==
    LET clause_lower == lower(text)
        k == FirstIndicator(clause_lower, overreach_indicators)
    IN  IF ContainsAny(clause_lower, dev_ip_keywords) /\ k # 0
        THEN [type |-> "ip_scope_deviation", severity |-> overreach_indicators[k].severity,
              actual |-> "Contains '" \o overreach_indicators[k].phrase \o "'",
              fair_standard |-> "Work-related IP created during employment only"]
        ELSE NoDeviation

termination_keywords == <<"termination", "terminate", "dismissal", "dismiss">>
unfair_indicators ==
    <<[phrase |-> "without cause", severity |-> "high"],
      [phrase |-> "at will", severity |-> "high"],
      [phrase |-> "without notice", severity |-> "medium"],
      [phrase |-> "immediate termination", severity |-> "medium"],
      [phrase |-> "sole discretion", severity |-> "medium"]>>

check_termination_deviation(text, fair_standards) ==
    LET clause_lower == lower(text)
        k == FirstIndicator(clause_lower, unfair_indicators)
    IN  IF ContainsAny(clause_lower, termination_keywords) /\ k # 0
        THEN [type |-> "unfair_termination", severity |-> unfair_indicators[k].severity,
              actual |-> "Contains '" \o unfair_indicators[k].phrase \o "'",
              fair_standard |-> "Termination with cause and notice"]
        ELSE NoDeviation

RECURSIVE CollectDeviations(_, _)
CollectDeviations(found, i) ==
    IF i > Len(found) THEN <<>>
    ELSE AppendIf(<<>>, found[i] # NoDeviation, found[i]) \o CollectDeviations(found, i + 1)

\* check_deviation with the fair-contract file as it is at the call
check_deviation(text, file) ==
    LET fair_standards == load_fair_contract(file)
        ds == CollectDeviations(
                  <<check_duration_deviation(text, fair_standards),
                    check_penalty_deviation(text, fair_standards),
                    check_ip_scope_deviation(text, fair_standards),
                    check_termination_deviation(text, fair_standards)>>, 1)
        severity_levels == {ds[i].severity : i \in 1..Len(ds)}
        severity ==
            IF ds = <<>> THEN "none"
            ELSE IF "critical" \in severity_levels THEN "critical"
            ELSE IF "high" \in severity_levels THEN "high"
            ELSE IF "medium" \in severity_levels THEN "medium"
            ELSE "low"
    IN  [has_deviation |-> Len(ds) > 0, deviations |-> ds,
         severity |-> severity, total_deviations |-> Len(ds)]

(***************************************************************************)
(* clause_splitter.py                                                      *)
(***************************************************************************)
SetMin(S) == CHOOSE x \in S : \A y \in S : x <= y
SetMax(S) == CHOOSE x \in S : \A y \in S : x >= y

\* str.strip()
strip(s) ==
    LET solid == {p \in 1..Len(s) : ~IsSpace(Char(s, p))}
    IN  IF solid = {} THEN "" ELSE SubSeq(s, SetMin(solid), SetMax(solid))

\* re.sub(r'\s+', ' ', s) on s[i..j]: a whitespace character becomes one
\* space if it opens its run and disappears otherwise
RECURSIVE CollapseRange(_, _, _)
CollapseRange(s, i, j) ==
    IF i > j THEN ""
    ELSE IF i = j
    THEN IF ~IsSpace(Char(s, i)) THEN Char(s, i)
         ELSE IF i > 1 /\ IsSpace(Char(s, i - 1)) THEN "" ELSE " "
    ELSE LET m == (i + j) \div 2
         IN  CollapseRange(s, i, m) \o CollapseRange(s, m + 1, j)

\* match of (\d+)\s*\.\s*(\d+) starting at q: the two groups and the end, or
\* end = 0 when there is no match at q
DottedNumberAt(s, q) ==
    LET e1 == DigitsEnd(s, q)
        w1 == SpacesEnd(s, e1)
        w2 == SpacesEnd(s, w1 + 1)
        e2 == DigitsEnd(s, w2)
    IN  IF e1 > q /\ w1 <= Len(s) /\ Char(s, w1) = "." /\ e2 > w2
        THEN [g1 |-> SubSeq(s, q, e1 - 1), g2 |-> SubSeq(s, w2, e2 - 1), end |-> e2]
        ELSE [g1 |-> "", g2 |-> "", end |-> 0]

\* re.sub(r'(\d+)\s*\.\s*(\d+)', r'\1.\2', s) from position p on
RECURSIVE FixDottedFrom(_, _)
FixDottedFrom(s, p) ==
    LET starts == {q \in p..Len(s) : DottedNumberAt(s, q).end # 0}
    IN  IF starts = {} THEN SubSeq(s, p, Len(s))
        ELSE LET q == SetMin(starts)
                 m == DottedNumberAt(s, q)
             IN  SubSeq(s, p, q - 1) \o m.g1 \o "." \o m.g2 \o FixDottedFrom(s, m.end)

\* the later text.replace('\n', ' ') finds no newline left to replace
normalize_text(text) ==
    LET collapsed == CollapseRange(text, 1, Len(text))
    IN  strip(FixDottedFrom(collapsed, 1))

\* \s+[A-Z] under re.IGNORECASE from r: position after the letter, else 0
SpacesLetterEnd(s, r) ==
    LET w == SpacesEnd(s, r)
    IN  IF w > r /\ w <= Len(s) /\ IsAlpha(Char(s, w)) THEN w + 1 ELSE 0

\* keyword\s+\d+ under re.IGNORECASE from b: position after the digits, else 0
KeywordNumberEnd(s, b, keyword) ==
    LET r == b + Len(keyword)
        w == SpacesEnd(s, r)
        e == DigitsEnd(s, w)
    IN  IF r - 1 <= Len(s) /\ lower(SubSeq(s, b, r - 1)) = keyword /\ w > r /\ e > w
        THEN e ELSE 0

\* the group of numbering pattern k matched from b: end position, else 0
\*   1: \d+\.\d+\.?\s+[A-Z]   2: \d+\.\s+[A-Z]
\*   3: Article\s+\d+   4: Clause\s+\d+   5: Section\s+\d+
MarkerBodyEnd(s, b, k) ==
    CASE k = 1 ->
           LET d1 == DigitsEnd(s, b)
               d2 == DigitsEnd(s, d1 + 1)
               dotted == IF d2 <= Len(s) /\ Char(s, d2) = "."
                         THEN SpacesLetterEnd(s, d2 + 1) ELSE 0
           IN  IF d1 > b /\ d1 <= Len(s) /\ Char(s, d1) = "." /\ d2 > d1 + 1
               THEN IF dotted # 0 THEN dotted ELSE SpacesLetterEnd(s, d2)
               ELSE 0
      [] k = 2 ->
           LET d1 == DigitsEnd(s, b)
           IN  IF d1 > b /\ d1 <= Len(s) /\ Char(s, d1) = "."
               THEN SpacesLetterEnd(s, d1 + 1) ELSE 0
      [] k = 3 -> KeywordNumberEnd(s, b, "article")
      [] k = 4 -> KeywordNumberEnd(s, b, "clause")
      [] k = 5 -> KeywordNumberEnd(s, b, "section")

NumberingPatterns == 1..5

\* (?:^|\s)(...) matched at q: end position, else 0
MarkerEnd(s, q, k) ==
    LET at_start == IF q = 1 THEN MarkerBodyEnd(s, q, k) ELSE 0
    IN  IF at_start # 0 THEN at_start
        ELSE IF IsSpace(Char(s, q)) THEN MarkerBodyEnd(s, q + 1, k)
        ELSE 0

\* [m.start() for m in re.finditer(pattern k, s)] from position p on
RECURSIVE MarkerStartsFrom(_, _, _)
MarkerStartsFrom(s, p, k) ==
    LET starts == {q \in p..Len(s) : MarkerEnd(s, q, k) # 0}
    IN  IF starts = {} THEN <<>>
        ELSE LET q == SetMin(starts)
             IN  <<q>> \o MarkerStartsFrom(s, MarkerEnd(s, q, k), k)

\* len(matches) >= 3
MinSections == 3
\* len(clauses) < 3
MinNumberedClauses == 3

\* the clauses cut at the match starts of one pattern
SectionsAt(s, starts) ==
    [i \in 1..Len(starts) |->
        strip(SubSeq(s, starts[i],
                     IF i + 1 <= Len(starts) THEN starts[i + 1] - 1 ELSE Len(s)))]

RECURSIVE NumberedFrom(_, _)
NumberedFrom(s, k) ==
    IF k \notin NumberingPatterns THEN <<>>
    ELSE LET starts == MarkerStartsFrom(s, 1, k)
         IN  IF Len(starts) >= MinSections THEN SectionsAt(s, starts)
             ELSE NumberedFrom(s, k + 1)

\* mutant: the Section pattern is tried before the others
split_by_numbered_sections_section_first(text) ==
    LET starts == MarkerStartsFrom(text, 1, 5)
    IN  IF Len(starts) >= MinSections THEN SectionsAt(text, starts)
        ELSE NumberedFrom(text, 1)

split_by_numbered_sections(text) == NumberedFrom(text, 1)

MIN_CLAUSE_LENGTH == 30
MAX_CLAUSE_LENGTH == 2000

split_keywords ==
    <<"provided that", "notwithstanding", "in consideration of",
      "the parties agree", "it is agreed", "whereas">>

should_split_clause(current_clause, last_sentence) ==
    \/ Len(current_clause) > MAX_CLAUSE_LENGTH
    \/ ContainsAny(lower(last_sentence), split_keywords)

\* whitespace runs matching (?<=[.!?])\s+(?=[A-Z]): their first positions
SentenceBreaks(s) ==
    {q \in 2..Len(s) :
        /\ IsSpace(Char(s, q))
        /\ Char(s, q - 1) \in {".", "!", "?"}
        /\ SpacesEnd(s, q) <= Len(s)
        /\ IsUpper(Char(s, SpacesEnd(s, q)))}

\* re.split(r'(?<=[.!?])\s+(?=[A-Z])', s) from position p on
RECURSIVE SentencesFrom(_, _)
SentencesFrom(s, p) ==
    LET breaks == {q \in SentenceBreaks(s) : q >= p}
    IN  IF breaks = {} THEN <<SubSeq(s, p, Len(s))>>
        ELSE LET q == SetMin(breaks)
             IN  <<SubSeq(s, p, q - 1)>> \o SentencesFrom(s, SpacesEnd(s, q))

\* the for loop of split_by_sentences from sentence i on, with its buffer
RECURSIVE RecombineFrom(_, _, _)
RecombineFrom(sentences, i, current_clause) ==
    IF i > Len(sentences)
    THEN IF current_clause # "" THEN <<strip(current_clause)>> ELSE <<>>
    ELSE LET sentence == strip(sentences[i])
             grown == IF current_clause # "" THEN current_clause \o " " \o sentence
                      ELSE sentence
         IN  IF sentence = "" THEN RecombineFrom(sentences, i + 1, current_clause)
             ELSE IF should_split_clause(grown, sentence)
             THEN <<strip(grown)>> \o RecombineFrom(sentences, i + 1, "")
             ELSE RecombineFrom(sentences, i + 1, grown)

split_by_sentences(text) == RecombineFrom(SentencesFrom(text, 1), 1, "")

\* re.match of the four noise patterns under re.IGNORECASE
IsNoise(clause) ==
    LET low == lower(clause)
    IN  \/ /\ StartsWithAt(low, 1, "page")
           /\ SpacesEnd(low, 5) > 5
           /\ DigitsEnd(low, SpacesEnd(low, 5)) > SpacesEnd(low, 5)
        \/ /\ DigitsEnd(low, 1) > 1
           /\ SpacesEnd(low, DigitsEnd(low, 1)) > Len(low)
        \/ low \in {"confidential", "draft"}

AlphaCount(clause) == Cardinality({p \in 1..Len(clause) : IsAlpha(Char(clause, p))})

KeepClause(stripped) ==
    /\ Len(stripped) >= MIN_CLAUSE_LENGTH
    /\ ~IsNoise(stripped)
    /\ 2 * AlphaCount(stripped) >= Len(stripped)

RECURSIVE FilterFrom(_, _)
FilterFrom(cs, i) ==
    IF i > Len(cs) THEN <<>>
    ELSE LET clause == strip(cs[i])
         IN  (IF KeepClause(clause) THEN <<clause>> ELSE <<>>) \o FilterFrom(cs, i + 1)

filter_clauses(cs) == FilterFrom(cs, 1)

split_clauses(text) ==
    LET normalized == normalize_text(text)
        numbered == split_by_numbered_sections(normalized)
    IN  filter_clauses(IF Len(numbered) < MinNumberedClauses
                       THEN split_by_sentences(normalized) ELSE numbered)

(***************************************************************************)
(* explanation.py.  The severity emoji and the warning sign of the         *)
(* disclaimer are written by name, in brackets.                            *)
(***************************************************************************)
\* clause_text[:100]
Prefix(s, n) == SubSeq(s, 1, Min(n, Len(s)))

summarize_clause(text) ==
    LET clause_lower == lower(text)
    IN  IF Contains(clause_lower, "non-compete") \/ Contains(clause_lower, "not compete")
        THEN "This clause attempts to restrict you from working in similar roles or companies after leaving."
        ELSE IF Contains(clause_lower, "intellectual property") \/ Contains(clause_lower, "copyright")
        THEN "This clause defines who owns the work, ideas, or creations you produce."
        ELSE IF Contains(clause_lower, "termination") \/ Contains(clause_lower, "terminate")
        THEN "This clause explains when and how the employment relationship can be ended."
        ELSE IF Contains(clause_lower, "penalty") \/ Contains(clause_lower, "liquidated damages")
        THEN "This clause specifies financial penalties if the contract is broken."
        ELSE IF Contains(clause_lower, "notice period") \/ Contains(clause_lower, "notice")
        THEN "This clause defines how much advance notice is required before leaving the job."
        ELSE IF Contains(clause_lower, "confidentiality") \/ Contains(clause_lower, "nda")
        THEN "This clause requires you to keep certain information private."
        ELSE "This clause covers: " \o Prefix(text, 100) \o "..."

\* severity_emoji.get(severity, white circle)
severity_emoji(severity) ==
    CASE severity = "critical" -> "[red]"
      [] severity = "high"     -> "[orange]"
      [] severity = "medium"   -> "[yellow]"
      [] severity = "low"      -> "[green]"
      [] OTHER                 -> "[white]"

\* explanations.get(violation_type, "<emoji> Potential issue: <description>")
explanations(violation, emoji) ==
    LET violation_type == Get(violation, "type", "")
    IN  CASE violation_type = "section_27_violation" ->
                 emoji \o " **Non-compete restriction**: In India, clauses that prevent you from working in your field are generally not enforceable. You have the right to earn a livelihood."
          [] violation_type = "section_23_violation" ->
                 emoji \o " **Unlawful purpose**: This clause may involve something illegal or against public policy, making it void."
          [] violation_type = "section_74_violation" ->
                 emoji \o " **Excessive penalty**: The penalty amount seems unreasonably high. Indian courts typically reduce excessive penalties to actual losses only."
          [] violation_type = "ip_overreach" ->
                 emoji \o " **Overly broad IP claim**: The company is claiming ownership of too much - potentially including your personal projects or work done outside of work hours."
          [] violation_type = "unfair_terms" ->
                 emoji \o " **One-sided terms**: This clause gives too much power to one party without reasonable protections for you."
          [] violation_type = "unclear_terms" ->
                 emoji \o " **Vague language**: The clause uses unclear terms that could lead to different interpretations and disputes."
          [] OTHER ->
                 emoji \o " Potential issue: " \o Get(violation, "description", "Unknown issue")

explain_violation(violation) ==
    LET emoji == severity_emoji(Get(violation, "severity", "low"))
        base_explanation == explanations(violation, emoji)
        recommendation == Get(violation, "recommendation", "")
    IN  IF recommendation # ""
        THEN base_explanation \o " **Suggested action:** " \o recommendation
        ELSE base_explanation

disclaimer ==
    "\n\n[warning] **Note:** This is educational information, not legal advice. Consult a lawyer for your specific situation."

\* "".join(explanation_parts)
RECURSIVE JoinParts(_)
JoinParts(parts) == IF parts = <<>> THEN "" ELSE Head(parts) \o JoinParts(Tail(parts))

\* the issue entries of violations[:limit], numbered from 1
IssueEntries(vs, limit) ==
    [idx \in 1..Min(limit, Len(vs)) |->
        "\n" \o ToString(idx) \o ". " \o explain_violation(vs[idx])]

\* explanation_parts with every violation rendered
generate_template_explanation_unlimited(text, vs, law) ==
    JoinParts(
        <<"**What this clause means:** " \o summarize_clause(text)>>
        \o (IF law # None
            THEN <<"\n\n**Legal context:** " \o "This relates to " \o law.section
                       \o " of the " \o law.act \o ", which deals with "
                       \o lower(law.title) \o ".">>
            ELSE <<>>)
        \o (IF vs # <<>>
            THEN <<"\n\n**Potential issues:**">> \o IssueEntries(vs, Len(vs))
            ELSE <<"\n\n**Assessment:** This clause appears generally fair and doesn't violate major Indian contract law provisions.">>)
        \o <<disclaimer>>)

generate_template_explanation(text, vs, law) ==
    JoinParts(
        <<"**What this clause means:** " \o summarize_clause(text)>>
        \o (IF law # None
            THEN <<"\n\n**Legal context:** " \o "This relates to " \o law.section
                       \o " of the " \o law.act \o ", which deals with "
                       \o lower(law.title) \o ".">>
            ELSE <<>>)
        \o (IF vs # <<>>
            THEN <<"\n\n**Potential issues:**">> \o IssueEntries(vs, 3)
            ELSE <<"\n\n**Assessment:** This clause appears generally fair and doesn't violate major Indian contract law provisions.">>)
        \o <<disclaimer>>)

generate_explanation(text, legal, law) ==
    generate_template_explanation(text, Get(legal, "violations", <<>>), law)

(***************************************************************************)
(* privacy_ttl.py.  The session table is a function from session ids to    *)
(* session records; every method runs under self.lock and takes the        *)
(* current time t.                                                         *)
(***************************************************************************)
SESSION_TTL_MINUTES == 30

\* del store[sid]
Without(store, sid) == [x \in DOMAIN store \ {sid} |-> store[x]]

\* store[sid] = session
With(store, sid, session) ==
    [x \in DOMAIN store \cup {sid} |->
        IF x = sid THEN session ELSE store[x]]

create_session(store, sid, t) ==
    With(store, sid,
         [created_at |-> t, expires_at |-> t + SESSION_TTL_MINUTES, data |-> None])

store_analysis(store, sid, analysis_data, t) ==
    IF sid \in DOMAIN store
    THEN [store EXCEPT ![sid].data = analysis_data,
                       ![sid].expires_at = t + SESSION_TTL_MINUTES]
    ELSE store

\* get_session without the expiry check
get_session_unchecked(store, sid, t) ==
    IF sid \notin DOMAIN store
    THEN [sessions |-> store, result |-> None]
    ELSE [sessions |-> [store EXCEPT ![sid].expires_at = t + SESSION_TTL_MINUTES],
          result |-> store[sid].data]

\* the table after the call and the value returned
get_session(store, sid, t) ==
    IF sid \notin DOMAIN store
    THEN [sessions |-> store, result |-> None]
    ELSE IF t > store[sid].expires_at
    THEN [sessions |-> Without(store, sid), result |-> None]
    ELSE [sessions |-> [store EXCEPT ![sid].expires_at = t + SESSION_TTL_MINUTES],
          result |-> store[sid].data]

delete_session(store, sid) ==
    IF sid \in DOMAIN store THEN Without(store, sid) ELSE store

\* cleanup that spares the sessions holding data
cleanup_expired_sessions_empty_only(store, t) ==
    LET expired == {x \in DOMAIN store : t > store[x].expires_at /\ store[x].data = None}
    IN  [sessions |-> [x \in DOMAIN store \ expired |-> store[x]],
         expired_sessions |-> expired]

\* the table after the run and the ids it deleted
cleanup_expired_sessions(store, t) ==
    LET expired == {x \in DOMAIN store : t > store[x].expires_at}
    IN  [sessions |-> [x \in DOMAIN store \ expired |-> store[x]],
         expired_sessions |-> expired]

\* extra_minutes = 0 stands for None: minutes = extra_minutes or SESSION_TTL_MINUTES
extend_session(store, sid, extra_minutes, t) ==
    LET minutes == IF extra_minutes = 0 THEN SESSION_TTL_MINUTES ELSE extra_minutes
    IN  IF sid \in DOMAIN store
        THEN [store EXCEPT ![sid].expires_at = t + minutes]
        ELSE store

(***************************************************************************)
(* app.py: analyze_contract                                                *)
(***************************************************************************)
allowed_extensions == {".pdf", ".docx", ".doc"}

\* os.path.splitext(filename)[1]: from the last dot on, unless only dots
\* precede it
splitext(filename) ==
    LET dots == {p \in 1..Len(filename) : Char(filename, p) = "."}
    IN  IF dots = {} THEN ""
        ELSE LET p == SetMax(dots)
             IN  IF \A q \in 1..p : Char(filename, q) = "." THEN ""
                 ELSE SubSeq(filename, p, Len(filename))

MinTextLength == 50

\* not text or len(text.strip()) < 50
insufficient_text(text) == text = "" \/ Len(strip(text)) < MinTextLength

\* jsonify({"error": reason}), 400 without the reason
BadRequest_no_reason(reason) == [status |-> 400, error |-> ""]

\* jsonify({"error": reason}), 400
BadRequest(reason) == [status |-> 400, error |-> reason]

\* the except branch: jsonify({"error": ..., "details": str(e)}), 500
ServerError(details) ==
    [status |-> 500, error |-> "Internal server error", details |-> details]

\* the body of the clause loop for clause idx with the law retrieved for it
ClauseResult(idx, text, law, file) ==
    LET legal == verify_clause(text, law)
        dev == check_deviation(text, file)
    IN  [clause_id |-> idx,
         clause_text |-> text,
         relevant_law |-> law,
         legal_check |-> legal,
         deviation |-> dev,
         risk_score |-> calculate_risk_score(legal, dev),
         explanation |-> generate_explanation(text, legal, law)]

\* contract_summary.generate_contract_summary: the document aggregate
generate_contract_summary(rs, overall_risk) == aggregate_document_risk(rs)

\* ai_response: the parsed reply, or the fallback of the except branch
AiResponse(reply) ==
    IF reply.raised
    THEN [error |-> "AI service unavailable", details |-> reply.text]
    ELSE [explanation |-> reply.text]

(***************************************************************************)
(* Risk scorer on arbitrary finding lists: the lists grow one finding at a *)
(* time and the clause is scored again after each addition.                *)
(***************************************************************************)
ViolationInputs == [type : ViolationTypes, severity : Severities]
DeviationInputs == [severity : Severities]

NotAggregated == [risk_level |-> "not_aggregated"]

DocIdle   == clause_results = <<>> /\ doc_risk = NotAggregated
ScoreIdle == violations = <<>> /\ deviations = <<>> /\ risk_score = NotScored

NotVerified == [total_violations |-> -1]
NotChecked  == [total_deviations |-> -1]

NotResegmented == [clause |-> "", result |-> <<>>]

SegIdle ==
    doc_text = "" /\ clauses = <<>> /\ reseg = NotResegmented /\ seg_pc = "idle"

ClauseIdle ==
    /\ clause_text = "" /\ fair_file = NoFile /\ relevant_law = None
    /\ legal_check = NotVerified /\ deviation = NotChecked /\ pc = "idle"

\* explanation before generate_explanation has run
NotExplained == "not_explained"
ExplIdle == explanation = NotExplained
\* got before any get_session call
NotFetched == [session_id |-> -1]
\* the ids create_session hands out, and one id it never hands out
SessionIds == 1..MaxSessions
UnknownId == 0
SessIdle ==
    /\ sessions = <<>> /\ now = 0 /\ next_id = 1 /\ got = NotFetched
    /\ stored = [x \in SessionIds \cup {UnknownId} |-> None] /\ expired_sessions = {}
\* no request received
NoRequest == [has_file |-> FALSE, filename |-> "none"]
NoResponse == [status |-> 0]
NoSession == -1
ReqIdle ==
    /\ request = NoRequest /\ req_pc = "idle" /\ session_id = NoSession
    /\ results = <<>> /\ response = NoResponse /\ retrieval_failed_at = 0
    /\ served = 0
\* request threads
Threads == 1..MaxThreads
\* a thread between two requests, and one outside the session manager
IdleWorker == [pc |-> "idle", handled |-> 0, index |-> None]
NoCall ==
    [op |-> "none", pc |-> "idle", sid |-> UnknownId, read_at |-> 0,
     found |-> FALSE, expired |-> {}]
ConcIdle ==
    /\ vector_store = None /\ built = 0 /\ worker = [t \in Threads |-> IdleWorker]
    /\ lock = {} /\ calls = [t \in Threads |-> NoCall]
ExtIdle  == ExplIdle /\ SessIdle /\ ReqIdle /\ ConcIdle

InitScore == ScoreIdle /\ DocIdle /\ ClauseIdle /\ SegIdle /\ ExtIdle

\* calculate_risk_score on the clause's current lists
ScoreFindings ==
    /\ risk_score = NotScored
    /\ risk_score' = calculate_risk_score(LegalCheckOf(violations), DeviationOf(deviations))
    /\ UNCHANGED <<violations, deviations, docVars, clauseVars, segVars, extVars>>

\* one more violation on the clause, then calculate_risk_score again
AddViolation(v) ==
    /\ risk_score # NotScored
    /\ Len(violations) < MaxViolations
    /\ Len(violations) + Len(deviations) < MaxFindings
    /\ violations' = Append(violations, v)
    /\ risk_score' = calculate_risk_score(LegalCheckOf(violations'), DeviationOf(deviations))
    /\ UNCHANGED <<deviations, docVars, clauseVars, segVars, extVars>>

\* one more deviation on the clause, then calculate_risk_score again
AddDeviation(d) ==
    /\ risk_score # NotScored
    /\ Len(violations) + Len(deviations) < MaxFindings
    /\ deviations' = Append(deviations, d)
    /\ risk_score' = calculate_risk_score(LegalCheckOf(violations), DeviationOf(deviations'))
    /\ UNCHANGED <<violations, docVars, clauseVars, segVars, extVars>>

NextScore ==
    \/ ScoreFindings
    \/ \E v \in ViolationInputs : AddViolation(v)
    \/ \E d \in DeviationInputs : AddDeviation(d)

SpecScore == InitScore /\ [][NextScore]_vars

(***************************************************************************)
(* Document aggregate over clause results.                                 *)
(***************************************************************************)
\* clause risk scores (hundredths) on both sides of every level threshold
ClauseScores == {0, 1160, 2960, 3000, 5990, 6000, 8480, 8500, 10000}

InitDoc == ScoreIdle /\ DocIdle /\ ClauseIdle /\ SegIdle /\ ExtIdle

\* app.py results.append({... "risk_score": risk ...})
AppendClauseResult(s) ==
    /\ Len(clause_results) < MaxClauses
    /\ clause_results' = Append(clause_results, [risk_score |-> s])
    /\ doc_risk' = NotAggregated
    /\ UNCHANGED <<scoreVars, clauseVars, segVars, extVars>>

AggregateDocumentRisk ==
    /\ doc_risk = NotAggregated
    /\ doc_risk' = aggregate_document_risk(clause_results)
    /\ UNCHANGED <<clause_results, scoreVars, clauseVars, segVars, extVars>>

NextDoc ==
    \/ \E s \in ClauseScores : AppendClauseResult(s)
    \/ AggregateDocumentRisk

SpecDoc == InitDoc /\ [][NextDoc]_vars

(***************************************************************************)
(* One iteration of the clause loop of analyze_contract on a clause text.  *)
(***************************************************************************)
Fragments ==
    <<"Employee shall not compete with Company for 2 years after termination,",
      "except in the context of sale of business.",
      "Employee shall not engage in rival trade for 6 months.",
      "Company may terminate this agreement at its sole discretion without notice.",
      "A penalty of 50% is payable.",
      "Interest is 5%.",
      "Compensation for breach is 25 percent.",
      "Employee shall pay 10 lakhs.",
      "All work is the intellectual property of Company.",
      "Any illegal act is void.",
      "Draft only.",
      "Employee agrees not to compete with Company for 2 years after termination.",
      "Employee must give notice of 1 months or 60 days.",
      "Employee must give notice of 3 months.",
      "The non-compete covenant lasts 90 days after notice.">>

\* the fragments idx names, joined by single spaces
RECURSIVE JoinFragments(_)
JoinFragments(idx) ==
    IF Len(idx) = 1 THEN Fragments[idx[1]]
    ELSE Fragments[idx[1]] \o " " \o JoinFragments(Tail(idx))

ClauseTexts ==
    {JoinFragments(idx) : idx \in UNION {[1..n -> 1..Len(Fragments)] : n \in 1..MaxFragments}}

\* what find_relevant_law can return
LawRecords ==
    {[section |-> "Section 27", act |-> "Indian Contract Act, 1872",
      title |-> "Agreement in restraint of trade",
      text |-> "Every agreement by which anyone is restrained from exercising a lawful profession, trade or business of any kind, is to that extent void.",
      relevance_score |-> 80]}

\* a fair-contract file that overrides the penalty standard and has no notice key
FairFiles == {NoFile, [penalty_percentage |-> 15, non_compete_months |-> 0]}

InitClause ==
    /\ ScoreIdle /\ DocIdle /\ SegIdle /\ ExtIdle
    /\ clause_text \in ClauseTexts
    /\ fair_file \in FairFiles
    /\ relevant_law = None
    /\ legal_check = NotVerified
    /\ deviation = NotChecked
    /\ pc = "retrieve"

\* relevant_law = vector_store.find_relevant_law(clause_text)
FindRelevantLaw(law) ==
    /\ pc = "retrieve"
    /\ relevant_law' = law
    /\ pc' = "verify"
    /\ UNCHANGED <<clause_text, fair_file, legal_check, deviation, scoreVars, docVars, segVars, extVars>>

\* legal_check = verify_clause(clause_text, relevant_law)
VerifyClause ==
    /\ pc = "verify"
    /\ legal_check' = verify_clause(clause_text, relevant_law)
    /\ pc' = "deviation"
    /\ UNCHANGED <<clause_text, fair_file, relevant_law, deviation, scoreVars, docVars, segVars, extVars>>

\* deviation = check_deviation(clause_text)
CheckDeviation ==
    /\ pc = "deviation"
    /\ deviation' = check_deviation(clause_text, fair_file)
    /\ pc' = "score"
    /\ UNCHANGED <<clause_text, fair_file, relevant_law, legal_check, scoreVars, docVars, segVars, extVars>>

\* risk = calculate_risk_score(legal_check, deviation)
CalculateRiskScore ==
    /\ pc = "score"
    /\ risk_score' = calculate_risk_score(legal_check, deviation)
    /\ pc' = "done"
    /\ UNCHANGED <<clause_text, fair_file, relevant_law, legal_check, deviation,
                   violations, deviations, docVars, segVars, extVars>>

NextClause ==
    \/ \E law \in LawRecords \cup {None} : FindRelevantLaw(law)
    \/ VerifyClause
    \/ CheckDeviation
    \/ CalculateRiskScore

SpecClause == InitClause /\ [][NextClause]_vars

(***************************************************************************)
(* Segmentation of a document, then of one of the clauses it produced.     *)
(***************************************************************************)
Passages ==
    <<"1. Term: The parties agree to the terms below. Employee shall serve the Company faithfully.",
      "2. Pay:  Salary is paid monthly by the Company.",
      "3. Leave: Employee may take paid leave as agreed.",
      "Employee shall keep all information secret. It is agreed that this duty survives.",
      "Page 2",
      "1. Section 1 sets the term of service. 2. Section 2 is void. 3. Section 3 sets the leave of the staff.">>

\* the passages idx names, one per line
RECURSIVE JoinPassages(_)
JoinPassages(idx) ==
    IF Len(idx) = 1 THEN Passages[idx[1]]
    ELSE Passages[idx[1]] \o "\n" \o JoinPassages(Tail(idx))

DocTexts ==
    {JoinPassages(idx) : idx \in UNION {[1..n -> 1..Len(Passages)] : n \in 1..MaxSections}}

InitSegment ==
    /\ ScoreIdle /\ DocIdle /\ ClauseIdle /\ ExtIdle
    /\ doc_text \in DocTexts
    /\ clauses = <<>>
    /\ reseg = NotResegmented
    /\ seg_pc = "split"

\* clauses = split_clauses(text)
SplitClauses ==
    /\ seg_pc = "split"
    /\ clauses' = split_clauses(doc_text)
    /\ seg_pc' = "split_done"
    /\ UNCHANGED <<doc_text, reseg, scoreVars, docVars, clauseVars, extVars>>

\* split_clauses applied to the i-th clause of the result
Resegment(i) ==
    /\ seg_pc = "split_done"
    /\ reseg' = [clause |-> clauses[i], result |-> split_clauses(clauses[i])]
    /\ seg_pc' = "resegmented"
    /\ UNCHANGED <<doc_text, clauses, scoreVars, docVars, clauseVars, extVars>>

NextSegment ==
    \/ SplitClauses
    \/ \E i \in 1..Len(clauses) : Resegment(i)

SpecSegment == InitSegment /\ [][NextSegment]_vars

(***************************************************************************)
(* generate_explanation on arbitrary violation lists: the list grows one   *)
(* violation at a time and the clause is explained again after each.       *)
(***************************************************************************)
\* clauses for the branches of summarize_clause
ExplainTexts ==
    {"Employee shall not compete with Company for 2 years after termination.",
     "Company may terminate this agreement at its sole discretion without notice.",
     "Draft only."}

\* violation dicts as the detectors build them, and one of an unlisted kind
\* without recommendation
ExplainViolations ==
    {check_section_27("Employee shall not compete with Company."),
     UnfairTermsViolation,
     [type |-> "custom_rule", severity |-> "info", description |-> "Custom finding."]}

InitExplain ==
    /\ DocIdle /\ SegIdle
    /\ violations = <<>> /\ deviations = <<>> /\ risk_score = NotScored
    /\ clause_text \in ExplainTexts
    /\ fair_file = NoFile
    /\ relevant_law \in LawRecords \cup {None}
    /\ legal_check = NotVerified
    /\ deviation = NotChecked
    /\ pc = "explain"
    /\ explanation = NotExplained
    /\ SessIdle /\ ReqIdle /\ ConcIdle

\* explanation = generate_explanation(clause_text, legal_check, relevant_law)
GenerateExplanation ==
    /\ pc = "explain"
    /\ explanation = NotExplained
    /\ explanation' = generate_explanation(clause_text, LegalCheckOf(violations), relevant_law)
    /\ UNCHANGED <<scoreVars, docVars, clauseVars, segVars, sessVars, reqVars, concVars>>

\* one more violation on the clause, then generate_explanation again
ExplainViolation(v) ==
    /\ pc = "explain"
    /\ explanation # NotExplained
    /\ Len(violations) < MaxExplained
    /\ violations' = Append(violations, v)
    /\ explanation' = generate_explanation(clause_text, LegalCheckOf(violations'), relevant_law)
    /\ UNCHANGED <<deviations, risk_score, docVars, clauseVars, segVars, sessVars, reqVars, concVars>>

NextExplain ==
    \/ GenerateExplanation
    \/ \E v \in ExplainViolations : ExplainViolation(v)

SpecExplain == InitExplain /\ [][NextExplain]_vars

(***************************************************************************)
(* Session manager: clients and the scheduler's cleanup job call the       *)
(* methods in any order while the clock advances.                          *)
(***************************************************************************)
\* analysis_data values, as in test_session_manager
AnalysisData == {[test |-> "data"], [test |-> "other"]}
\* extra_minutes arguments of extend_session (0 = None)
ExtraMinutes == {0, 15}

\* the ids a client can name: those handed out so far, and the unknown one
ClientIds == (1..(next_id - 1)) \cup {UnknownId}

\* an expiry set at the current time falls before the end of the clock
BeforeHorizon(minutes) == now + minutes < MaxTime

InitSession ==
    /\ ScoreIdle /\ DocIdle /\ ClauseIdle /\ SegIdle /\ ExplIdle
    /\ SessIdle /\ ReqIdle /\ ConcIdle

CreateSession ==
    /\ next_id <= MaxSessions
    /\ BeforeHorizon(SESSION_TTL_MINUTES)
    /\ sessions' = create_session(sessions, next_id, now)
    /\ next_id' = next_id + 1
    /\ UNCHANGED <<now, got, stored, expired_sessions,
                   scoreVars, docVars, clauseVars, segVars, explVars, concVars, reqVars>>

StoreAnalysis(sid, analysis_data) ==
    /\ sid \in ClientIds
    /\ BeforeHorizon(SESSION_TTL_MINUTES)
    /\ sessions' = store_analysis(sessions, sid, analysis_data, now)
    /\ stored' = [stored EXCEPT ![sid] = analysis_data]
    /\ UNCHANGED <<now, next_id, got, expired_sessions,
                   scoreVars, docVars, clauseVars, segVars, explVars, concVars, reqVars>>

GetSession(sid) ==
    LET existed == sid \in DOMAIN sessions
        expired == existed /\ now > sessions[sid].expires_at
        call == get_session(sessions, sid, now)
    IN  /\ sid \in ClientIds
        /\ (existed /\ ~expired) => BeforeHorizon(SESSION_TTL_MINUTES)
        /\ sessions' = call.sessions
        /\ got' = [session_id |-> sid, existed |-> existed, expired |-> expired,
                   stored |-> stored[sid], result |-> call.result]
        /\ UNCHANGED <<now, next_id, stored, expired_sessions,
                       scoreVars, docVars, clauseVars, segVars, explVars, concVars, reqVars>>

DeleteSession(sid) ==
    /\ sid \in ClientIds
    /\ sessions' = delete_session(sessions, sid)
    /\ UNCHANGED <<now, next_id, got, stored, expired_sessions,
                   scoreVars, docVars, clauseVars, segVars, explVars, concVars, reqVars>>

ExtendSession(sid, extra_minutes) ==
    /\ sid \in ClientIds
    /\ BeforeHorizon(IF extra_minutes = 0 THEN SESSION_TTL_MINUTES ELSE extra_minutes)
    /\ sessions' = extend_session(sessions, sid, extra_minutes, now)
    /\ UNCHANGED <<now, next_id, got, stored, expired_sessions,
                   scoreVars, docVars, clauseVars, segVars, explVars, concVars, reqVars>>

\* the scheduler's interval job
CleanupExpiredSessions ==
    LET run == cleanup_expired_sessions(sessions, now)
    IN  /\ sessions' = run.sessions
        /\ expired_sessions' = run.expired_sessions
        /\ UNCHANGED <<now, next_id, got, stored,
                       scoreVars, docVars, clauseVars, segVars, explVars, concVars, reqVars>>

\* time passes
Tick ==
    /\ now + TickMinutes <= MaxTime
    /\ now' = now + TickMinutes
    /\ UNCHANGED <<sessions, next_id, got, stored, expired_sessions,
                   scoreVars, docVars, clauseVars, segVars, explVars, concVars, reqVars>>

\* a client call that reads or refreshes the session
Access(sid) ==
    \/ GetSession(sid)
    \/ \E analysis_data \in AnalysisData : StoreAnalysis(sid, analysis_data)
    \/ \E extra_minutes \in ExtraMinutes : ExtendSession(sid, extra_minutes)

NextSession ==
    \/ CreateSession
    \/ \E sid \in SessionIds \cup {UnknownId} : Access(sid)
    \/ \E sid \in SessionIds \cup {UnknownId} : DeleteSession(sid)
    \/ CleanupExpiredSessions
    \/ Tick

SpecSession == InitSession /\ [][NextSession]_vars

\* the clock runs and the scheduler keeps starting the cleanup job
SpecSessionFair ==
    SpecSession /\ WF_vars(Tick) /\ WF_vars(CleanupExpiredSessions)

(***************************************************************************)
(* analyze_contract, step by step: validation and session creation, text   *)
(* extraction and segmentation, one clause at a time, then summary, AI     *)
(* explanation, storage and response.  The collaborators (extractor, law   *)
(* index, AI service) answer or raise as they please.                      *)
(***************************************************************************)
\* uploads: no file part, an empty filename, an unsupported type, a DOCX
Requests ==
    {[has_file |-> FALSE, filename |-> ""],
     [has_file |-> TRUE, filename |-> ""],
     [has_file |-> TRUE, filename |-> "notes.txt"],
     [has_file |-> TRUE, filename |-> "Contract.final.DOCX"]}

NumberedContract ==
    "1. Employee shall not compete for 2 years in any illegal act or shall pay damages of 25%.\n2. Company may terminate at its sole discretion.\n3. A penalty of 50% is payable on breach."

\* what extract_text can do: raise, or return a text
Extractions ==
    {[raised |-> TRUE,  text |-> "PDF extraction failed"],
     [raised |-> FALSE, text |-> ""],
     [raised |-> FALSE, text |-> "  Too short.  "],
     [raised |-> FALSE, text |-> "Employee shall serve the Company faithfully and well."],
     [raised |-> FALSE, text |-> "Page 2 of the annex 12345 67890 12345 67890 12345 67890 12345"],
     [raised |-> FALSE, text |-> NumberedContract]}

\* what find_relevant_law can do: raise, return None, or return a record
Retrievals ==
    {[raised |-> TRUE, law |-> None], [raised |-> FALSE, law |-> None]}
        \cup {[raised |-> FALSE, law |-> law] : law \in LawRecords}

\* what get_ai_risk_explanation and json.loads can do: raise, or give a reply
AiReplies ==
    {[raised |-> TRUE,  text |-> "503 Server Error"],
     [raised |-> FALSE, text |-> "The contract is risky."]}

InitRequest ==
    /\ ScoreIdle /\ DocIdle /\ ClauseIdle /\ SegIdle /\ ExplIdle /\ SessIdle /\ ConcIdle
    /\ request \in Requests
    /\ req_pc = "validate"
    /\ session_id = NoSession
    /\ results = <<>>
    /\ response = NoResponse
    /\ retrieval_failed_at = 0
    /\ served = 0

\* lines 162-176: the file checks, then create_session
ValidateRequest ==
    /\ req_pc = "validate"
    /\ LET file_ext == lower(splitext(request.filename))
           reason ==
               IF ~request.has_file THEN "No file provided"
               ELSE IF request.filename = "" THEN "Empty filename"
               ELSE IF file_ext \notin allowed_extensions THEN "Unsupported file type"
               ELSE ""
       IN  IF reason # ""
           THEN /\ response' = BadRequest(reason)
                /\ req_pc' = "done"
                /\ UNCHANGED <<session_id, sessions, next_id>>
           ELSE /\ session_id' = next_id
                /\ sessions' = create_session(sessions, next_id, now)
                /\ next_id' = next_id + 1
                /\ req_pc' = "extract"
                /\ UNCHANGED response
    /\ served' = IF req_pc' = "done" THEN served + 1 ELSE served
    /\ UNCHANGED <<request, results, retrieval_failed_at, now, got, stored, expired_sessions,
                   scoreVars, docVars, clauseVars, segVars, explVars, concVars>>

\* lines 178-186: extract_text, the text check, split_clauses
ExtractAndSplit(extraction) ==
    /\ req_pc = "extract"
    /\ IF extraction.raised
       THEN /\ response' = ServerError(extraction.text)
            /\ req_pc' = "done"
            /\ UNCHANGED <<doc_text, clauses>>
       ELSE IF insufficient_text(extraction.text)
       THEN /\ response' = BadRequest("Insufficient text extracted")
            /\ req_pc' = "done"
            /\ doc_text' = extraction.text
            /\ UNCHANGED clauses
       ELSE /\ doc_text' = extraction.text
            /\ clauses' = split_clauses(extraction.text)
            /\ IF clauses' = <<>>
               THEN response' = BadRequest("No clauses found") /\ req_pc' = "done"
               ELSE UNCHANGED response /\ req_pc' = "analyze"
    /\ served' = IF req_pc' = "done" THEN served + 1 ELSE served
    /\ UNCHANGED <<request, session_id, results, retrieval_failed_at, reseg, seg_pc,
                   scoreVars, docVars, clauseVars, explVars, concVars, sessVars>>

\* lines 188-203: one iteration of the clause loop
AnalyzeClause(retrieval) ==
    /\ req_pc = "analyze"
    /\ LET idx == Len(results) + 1
       IN  IF retrieval.raised
           THEN /\ response' = ServerError("law retrieval failed")
                /\ retrieval_failed_at' = idx
                /\ req_pc' = "done"
                /\ UNCHANGED results
           ELSE /\ results' = Append(results,
                                     ClauseResult(idx, clauses[idx], retrieval.law, fair_file))
                /\ req_pc' = IF idx = Len(clauses) THEN "finish" ELSE "analyze"
                /\ UNCHANGED <<response, retrieval_failed_at>>
    /\ served' = IF req_pc' = "done" THEN served + 1 ELSE served
    /\ UNCHANGED <<request, session_id, scoreVars, docVars, clauseVars, segVars,
                   explVars, concVars, sessVars>>

\* lines 205-239: summary, AI explanation, store_analysis, the response
FinishRequest(reply) ==
    /\ req_pc = "finish"
    /\ LET total == SumSeq([i \in 1..Len(results) |-> results[i].risk_score])
           overall_risk == [sum |-> total, count |-> Len(results)]
           contract_summary == generate_contract_summary(results, overall_risk)
       IN  /\ sessions' = store_analysis(sessions, session_id,
                              [filename |-> request.filename, results |-> results,
                               overall_risk |-> overall_risk, summary |-> contract_summary],
                              now)
           /\ response' = [status |-> 200,
                           session_id |-> session_id,
                           filename |-> request.filename,
                           total_clauses |-> Len(results),
                           overall_risk_score |-> RoundDiv(total, Len(results)),
                           rule_based_summary |-> contract_summary,
                           ai_risk_explanation |-> AiResponse(reply),
                           analysis |-> results,
                           timestamp |-> now]
    /\ req_pc' = "done"
    /\ served' = served + 1
    /\ UNCHANGED <<request, session_id, results, retrieval_failed_at,
                   now, next_id, got, stored, expired_sessions,
                   scoreVars, docVars, clauseVars, segVars, explVars, concVars>>

\* the fair-contract file is written, replaced or removed while the clause
\* loop runs; load_fair_contract reads it at every check_deviation call
FairContractChanges(file) ==
    /\ req_pc = "analyze"
    /\ results # <<>>
    /\ file # fair_file
    /\ fair_file' = file
    /\ UNCHANGED <<clause_text, relevant_law, legal_check, deviation, pc,
                   scoreVars, docVars, segVars, extVars>>

\* the next upload
NextUpload(upload) ==
    /\ req_pc = "done"
    /\ served < MaxRequests
    /\ request' = upload
    /\ req_pc' = "validate"
    /\ session_id' = NoSession
    /\ results' = <<>>
    /\ response' = NoResponse
    /\ retrieval_failed_at' = 0
    /\ doc_text' = "" /\ clauses' = <<>>
    /\ UNCHANGED <<served, reseg, seg_pc, scoreVars, docVars, clauseVars, explVars, concVars, sessVars>>

NextRequest ==
    \/ ValidateRequest
    \/ \E extraction \in Extractions : ExtractAndSplit(extraction)
    \/ \E retrieval \in Retrievals : AnalyzeClause(retrieval)
    \/ \E reply \in AiReplies : FinishRequest(reply)
    \/ \E file \in FairFiles : FairContractChanges(file)
    \/ \E upload \in Requests : NextUpload(upload)

SpecRequest == InitRequest /\ [][NextRequest]_vars

(***************************************************************************)
(* Concurrent requests and the shared law index: before_request runs       *)
(* initialize_vector_store in the thread of each request.                  *)
(***************************************************************************)
\* VectorStore(laws): the k-th object constructed
VectorStore(k) == [section |-> "VectorStore", object |-> k]

InitStore ==
    /\ ScoreIdle /\ DocIdle /\ ClauseIdle /\ SegIdle /\ ExplIdle /\ SessIdle /\ ReqIdle
    /\ ConcIdle

\* a request arrives and is given to thread t
ReceiveRequest(t) ==
    /\ worker[t].pc = "idle"
    /\ worker[t].handled < MaxRequests
    /\ worker' = [worker EXCEPT ![t].pc = "before_request"]
    /\ UNCHANGED <<vector_store, built, lock, calls,
                   scoreVars, docVars, clauseVars, segVars, explVars, sessVars, reqVars>>

\* if vector_store is None:
initialize_vector_store(t) ==
    /\ worker[t].pc = "before_request"
    /\ worker' = [worker EXCEPT ![t].pc =
                      IF vector_store = None THEN "construct" ELSE "handler"]
    /\ UNCHANGED <<vector_store, built, lock, calls,
                   scoreVars, docVars, clauseVars, segVars, explVars, sessVars, reqVars>>

\* laws = load_indian_laws(); vector_store = VectorStore(laws)
ConstructVectorStore(t) ==
    /\ worker[t].pc = "construct"
    /\ built' = built + 1
    /\ vector_store' = VectorStore(built + 1)
    /\ worker' = [worker EXCEPT ![t].pc = "handler"]
    /\ UNCHANGED <<lock, calls,
                   scoreVars, docVars, clauseVars, segVars, explVars, sessVars, reqVars>>

\* the handler reaches the clause loop, which reads the global for
\* vector_store.find_relevant_law(clause)
HandleRequest(t) ==
    /\ worker[t].pc = "handler"
    /\ worker' = [worker EXCEPT ![t].pc = "analysis", ![t].index = vector_store]
    /\ UNCHANGED <<vector_store, built, lock, calls,
                   scoreVars, docVars, clauseVars, segVars, explVars, sessVars, reqVars>>

\* return jsonify(response)
Respond(t) ==
    /\ worker[t].pc = "analysis"
    /\ worker' = [worker EXCEPT ![t] =
                      [pc |-> "idle", handled |-> @.handled + 1, index |-> None]]
    /\ UNCHANGED <<vector_store, built, lock, calls,
                   scoreVars, docVars, clauseVars, segVars, explVars, sessVars, reqVars>>

NextStore ==
    \E t \in Threads :
        \/ ReceiveRequest(t)
        \/ initialize_vector_store(t)
        \/ ConstructVectorStore(t)
        \/ HandleRequest(t)
        \/ Respond(t)

SpecStore == InitStore /\ [][NextStore]_vars

(***************************************************************************)
(* The session manager under threads: request threads and the scheduler    *)
(* thread call the methods at the same time.  A call waits for self.lock,  *)
(* runs the tests of its body, then its deletions and assignments, and     *)
(* leaves the with block.  The clock advances between any two steps.       *)
(***************************************************************************)
\* the methods that name a session, and all methods
KeyedOps == {"store_analysis", "get_session", "delete_session", "extend_session"}
Ops == KeyedOps \cup {"create_session", "cleanup_expired_sessions"}

\* a Lock that lets every thread in
LockFree_always(holders) == TRUE

\* threading.Lock: acquired only while no thread holds it
LockFree(holders) == holders = {}

InitLock ==
    /\ ScoreIdle /\ DocIdle /\ ClauseIdle /\ SegIdle /\ ExplIdle /\ SessIdle /\ ReqIdle
    /\ ConcIdle

\* thread t enters a method: create_session draws its uuid and
\* cleanup_expired_sessions reads the clock before the with block
BeginCall(t, op, sid) ==
    /\ calls[t].pc = "idle"
    /\ IF op = "create_session" THEN next_id <= MaxSessions /\ sid = next_id
       ELSE IF op = "cleanup_expired_sessions" THEN sid = UnknownId
       ELSE sid \in ClientIds
    /\ next_id' = IF op = "create_session" THEN next_id + 1 ELSE next_id
    /\ calls' = [calls EXCEPT ![t] =
                    [op |-> op, pc |-> "wait", sid |-> sid,
                     read_at |-> IF op = "cleanup_expired_sessions" THEN now ELSE 0,
                     found |-> FALSE, expired |-> {}]]
    /\ UNCHANGED <<sessions, now, got, stored, expired_sessions, lock,
                   vector_store, built, worker,
                   scoreVars, docVars, clauseVars, segVars, explVars, reqVars>>

\* with self.lock:
Acquire(t) ==
    /\ calls[t].pc = "wait"
    /\ LockFree(lock)
    /\ lock' = lock \cup {t}
    /\ calls' = [calls EXCEPT ![t].pc = "test"]
    /\ UNCHANGED <<vector_store, built, worker,
                   scoreVars, docVars, clauseVars, segVars, explVars, sessVars, reqVars>>

\* if session_id in self.sessions; the loop collecting expired_sessions
Examine(t) ==
    /\ calls[t].pc = "test"
    /\ calls' = [calls EXCEPT
                    ![t].pc = "act",
                    ![t].found = calls[t].sid \in DOMAIN sessions,
                    ![t].expired =
                        IF calls[t].op = "cleanup_expired_sessions"
                        THEN {x \in DOMAIN sessions :
                                  calls[t].read_at > sessions[x].expires_at}
                        ELSE {}]
    /\ UNCHANGED <<lock, vector_store, built, worker,
                   scoreVars, docVars, clauseVars, segVars, explVars, sessVars, reqVars>>

\* self.sessions[session_id] or del self.sessions[session_id] on a key that
\* is no longer there raises KeyError
KeyErrorAt(t) ==
    \/ calls[t].op \in KeyedOps /\ calls[t].found /\ calls[t].sid \notin DOMAIN sessions
    \/ ~(calls[t].expired \subseteq DOMAIN sessions)

\* the table after the assignments and deletions of the body
Applied(t, analysis_data, extra_minutes) ==
    LET op == calls[t].op
        sid == calls[t].sid
    IN  IF op = "create_session" THEN create_session(sessions, sid, now)
        ELSE IF op = "cleanup_expired_sessions"
        THEN [x \in DOMAIN sessions \ calls[t].expired |-> sessions[x]]
        ELSE IF ~calls[t].found THEN sessions
        ELSE IF op = "store_analysis"
        THEN store_analysis(sessions, sid, analysis_data, now)
        ELSE IF op = "get_session" THEN get_session(sessions, sid, now).sessions
        ELSE IF op = "delete_session" THEN delete_session(sessions, sid)
        ELSE extend_session(sessions, sid, extra_minutes, now)

\* the rest of the body, then the end of the with block
Apply(t, analysis_data, extra_minutes) ==
    /\ calls[t].pc = "act"
    /\ IF KeyErrorAt(t)
       THEN /\ calls' = [calls EXCEPT ![t].pc = "raised"]
            /\ UNCHANGED sessions
       ELSE /\ calls' = [calls EXCEPT ![t] = NoCall]
            /\ sessions' = Applied(t, analysis_data, extra_minutes)
    /\ lock' = lock \ {t}
    /\ UNCHANGED <<now, next_id, got, stored, expired_sessions,
                   vector_store, built, worker,
                   scoreVars, docVars, clauseVars, segVars, explVars, reqVars>>

NextLock ==
    \/ \E t \in Threads, op \in Ops, sid \in SessionIds \cup {UnknownId} :
           BeginCall(t, op, sid)
    \/ \E t \in Threads : Acquire(t)
    \/ \E t \in Threads : Examine(t)
    \/ \E t \in Threads, analysis_data \in AnalysisData, extra_minutes \in ExtraMinutes :
           Apply(t, analysis_data, extra_minutes)
    \/ Tick

SpecLock == InitLock /\ [][NextLock]_vars

(***************************************************************************)
(* Risk scorer properties                                                  *)
(***************************************************************************)
\* C1: whatever the violation and deviation lists, the score returned by
\* calculate_risk_score lies within [0,100] (0..10000 hundredths).
C1_ScoreInRange ==
    risk_score # NotScored => (risk_score >= 0 /\ risk_score <= 10000)

CriticalCount(vs) == Cardinality({i \in 1..Len(vs) : vs[i].severity = "critical"})

\* C1 witness: a scored clause with more than one critical violation (the
\* boosted legal sub-score hits its cap) and the full frequency sub-score
C1_Witness ==
    /\ risk_score # NotScored
    /\ CriticalCount(violations) > 1
    /\ Len(violations) + Len(deviations) >= 5
    /\ risk_score = 9700

\* C2: adding one violation or one deviation to a scored clause never
\* lowers its score.
C2_Monotone ==
    [][(risk_score # NotScored /\ risk_score' # NotScored) => risk_score' >= risk_score]_vars

\* C2 witness: a clause scored again after a weaker violation was added
\* behind a stronger one
C2_Witness ==
    /\ risk_score # NotScored
    /\ Len(violations) = 2
    /\ SEVERITY_SCORES(violations[2].type) < SEVERITY_SCORES(violations[1].type)
    /\ Len(deviations) >= 1

\* C3: with no violation and no deviation the score is exactly 0.0 and its
\* level is "low".
C3_EmptyIsZeroLow ==
    (risk_score # NotScored /\ violations = <<>> /\ deviations = <<>>)
        => (risk_score = 0 /\ get_risk_level(risk_score) = "low")

\* C3 witness: the empty clause has been scored
C3_Witness == risk_score # NotScored /\ violations = <<>> /\ deviations = <<>>

(***************************************************************************)
(* Document aggregate properties                                           *)
(***************************************************************************)
\* level of a clause score by the fixed thresholds 85 / 60 / 30
ThresholdLevel(s) ==
    IF s >= 8500 THEN "critical" ELSE IF s >= 6000 THEN "high"
    ELSE IF s >= 3000 THEN "medium" ELSE "low"

ClauseLevels == {ThresholdLevel(clause_results[i].risk_score) : i \in 1..Len(clause_results)}

WorstLevel(levels) ==
    IF "critical" \in levels THEN "critical" ELSE IF "high" \in levels THEN "high"
    ELSE IF "medium" \in levels THEN "medium" ELSE "low"

\* C4: for a non-empty document the aggregate level is "critical" exactly
\* when some clause is critical, and otherwise the worst clause level,
\* whatever level the mean score has.
C4_WorstClauseWins ==
    (doc_risk # NotAggregated /\ clause_results # <<>>)
        => /\ (doc_risk.risk_level = "critical") <=> ("critical" \in ClauseLevels)
           /\ doc_risk.risk_level = WorstLevel(ClauseLevels)

\* C4 witness: an aggregated document with one critical clause whose mean
\* score is below the critical threshold
C4_Witness ==
    /\ doc_risk # NotAggregated
    /\ Len(clause_results) >= 2
    /\ "critical" \in ClauseLevels
    /\ ThresholdLevel(doc_risk.overall_score) # "critical"
    /\ doc_risk.risk_level = "critical"

(***************************************************************************)
(* Rule engine and deviation engine properties                             *)
(***************************************************************************)
HasViolation(type, severity) ==
    \E i \in 1..Len(legal_check.violations) :
        /\ legal_check.violations[i].type = type
        /\ legal_check.violations[i].severity = severity

HasViolationType(type) ==
    \E i \in 1..Len(legal_check.violations) : legal_check.violations[i].type = type

HasDeviation(type, severity) ==
    \E i \in 1..Len(deviation.deviations) :
        /\ deviation.deviations[i].type = type
        /\ deviation.deviations[i].severity = severity

\* the digit-written durations of one unit, in clause order
DurationsOf(s, k) == findall_numbers(s, duration_patterns[k].alts)

\* some duration of some unit is positive
HasPositiveDuration(s) ==
    \E k \in 1..Len(duration_patterns) :
        \E i \in 1..Len(DurationsOf(s, k)) : ToInt(DurationsOf(s, k)[i]) > 0

\* the first duration of some unit is positive
HasPositiveFirstDuration(s) ==
    \E k \in 1..Len(duration_patterns) :
        DurationsOf(s, k) # <<>> /\ ToInt(DurationsOf(s, k)[1]) > 0

SoleDiscretionClause ==
    "Company may terminate this agreement at its sole discretion without notice."

\* C6: the sole-discretion termination clause gets an unfair_terms violation
\* (medium), an unfair_termination deviation (medium) and a score above 0.
C6_SoleDiscretion ==
    (pc = "done" /\ clause_text = SoleDiscretionClause)
        => /\ HasViolation("unfair_terms", "medium")
           /\ HasDeviation("unfair_termination", "medium")
           /\ risk_score > 0

\* C6 witness: that clause analysed, scoring 11.6
C6_Witness ==
    /\ pc = "done"
    /\ clause_text = SoleDiscretionClause
    /\ legal_check.total_violations = 1
    /\ deviation.total_deviations = 1
    /\ risk_score = 1160

\* penalty keywords both engines recognise
common_penalty_keywords == <<"penalty", "liquidated damages", "damages">>

Percentages(s) == findall_numbers(s, percent_units)

\* C7 as stated: with a penalty keyword and the default standard, any
\* percentage figure above 20 yields a section_74 violation (high) and an
\* excessive_penalty deviation (high).
C7_AnyPercentage ==
    (/\ pc = "done"
     /\ fair_file = NoFile
     /\ ContainsAny(lower(clause_text), common_penalty_keywords)
     /\ \E i \in 1..Len(Percentages(lower(clause_text))) :
            ToInt(Percentages(lower(clause_text))[i]) > 20)
        => /\ HasViolation("section_74_violation", "high")
           /\ HasDeviation("excessive_penalty", "high")

\* C7 amended: with "penalty" or "damages" in the clause and the default
\* standard, some percentage figure above 20 yields the section_74 violation
\* (high), and a first percentage figure above 20 yields the
\* excessive_penalty deviation (high).
C7_FirstPercentage ==
    (/\ pc = "done"
     /\ fair_file = NoFile
     /\ ContainsAny(lower(clause_text), common_penalty_keywords))
        => /\ (\E i \in 1..Len(Percentages(lower(clause_text))) :
                   ToInt(Percentages(lower(clause_text))[i]) > 20)
                  => HasViolation("section_74_violation", "high")
           /\ (/\ Percentages(lower(clause_text)) # <<>>
               /\ ToInt(Percentages(lower(clause_text))[1]) > 20)
                  => HasDeviation("excessive_penalty", "high")

\* C7 witness: "penalty of 50%" analysed under the default standard
C7_Witness ==
    /\ pc = "done"
    /\ fair_file = NoFile
    /\ clause_text = "A penalty of 50% is payable."
    /\ HasViolation("section_74_violation", "high")
    /\ HasDeviation("excessive_penalty", "high")

\* C9: verify_clause reports is_valid exactly when no returned violation has
\* severity high or critical.
C9_ValidIffNoSevere ==
    legal_check # NotVerified
        => (legal_check.is_valid
              <=> \A i \in 1..Len(legal_check.violations) :
                      legal_check.violations[i].severity \notin {"high", "critical"})

\* C9 witness: a verified clause that is invalid through a high violation
\* alone
C9_Witness ==
    /\ legal_check # NotVerified
    /\ ~legal_check.is_valid
    /\ HasViolation("section_74_violation", "high")
    /\ \A i \in 1..Len(legal_check.violations) :
           legal_check.violations[i].severity # "critical"

DetectionOf(result) ==
    <<result.violations, result.is_valid, result.risk_level, result.applicable_sections>>

\* C10: whatever law record is passed (None included), verify_clause returns
\* the same violations, is_valid, risk_level and applicable_sections.
C10_LawIgnored ==
    pc = "deviation"
        => \A law \in LawRecords \cup {None} :
               DetectionOf(verify_clause(clause_text, law)) = DetectionOf(legal_check)

\* C10 witness: a clause with violations verified with a matched law
C10_Witness ==
    /\ pc = "deviation"
    /\ relevant_law # None
    /\ legal_check.violations # <<>>

\* violation kinds in detector execution order
DetectorOrder ==
    <<"section_27_violation", "section_23_violation", "section_74_violation",
      "ip_overreach", "unfair_terms", "unclear_terms">>

Rank(type) == CHOOSE k \in 1..Len(DetectorOrder) : DetectorOrder[k] = type

\* C17: the violations of a verified clause are in detector order, each kind
\* at most once, and a kind is listed exactly when its own detector fires on
\* the clause, whatever the other detectors found.
C17_OrderStable ==
    pc = "deviation"
        => LET found == RunDetectors(clause_text)
               types == [i \in 1..Len(legal_check.violations) |->
                             legal_check.violations[i].type]
           IN  /\ \A i, j \in 1..Len(types) : i < j => Rank(types[i]) < Rank(types[j])
               /\ \A k \in 1..Len(DetectorOrder) :
                      (\E i \in 1..Len(types) : types[i] = DetectorOrder[k])
                          <=> found[k].v # NoViolation

\* C17 witness: a verified clause on which the first and the fifth detector
\* both fired
C17_Witness ==
    /\ pc = "deviation"
    /\ Len(legal_check.violations) >= 2
    /\ HasViolationType("section_27_violation")
    /\ HasViolationType("unfair_terms")

TestNonCompeteClause ==
    "Employee agrees not to compete with Company for 2 years after termination."

\* C18: a verified clause has a critical section_27 violation exactly when it
\* contains a restraint keyword and no exception phrase; the clause of
\* test_rule_engine has one.
C18_Section27 ==
    legal_check # NotVerified
        => /\ HasViolation("section_27_violation", "critical")
                 <=> (/\ ContainsAny(lower(clause_text), non_compete_keywords)
                      /\ ~ContainsAny(lower(clause_text), exception_keywords))
           /\ HasViolationType("section_27_violation")
                 => HasViolation("section_27_violation", "critical")
           /\ clause_text = TestNonCompeteClause
                 => HasViolation("section_27_violation", "critical")

DurationDeviationTypes == {"excessive_notice_period", "non_compete_duration"}

\* the first unit pattern, in pattern order, that matches the clause (0 = none)
FirstMatchingPattern(s) ==
    IF \A k \in 1..Len(duration_patterns) : DurationsOf(s, k) = <<>> THEN 0
    ELSE CHOOSE k \in 1..Len(duration_patterns) :
             /\ DurationsOf(s, k) # <<>>
             /\ \A m \in 1..(k - 1) : DurationsOf(s, m) = <<>>

\* C19: a duration deviation of a clause reports the first match of the
\* first unit pattern that matches the clause, never a duration of a later
\* unit.
C19_FirstPatternWins ==
    deviation # NotChecked
        => \A i \in 1..Len(deviation.deviations) :
               deviation.deviations[i].type \in DurationDeviationTypes
                   => LET s == lower(clause_text)
                          k == FirstMatchingPattern(s)
                      IN  /\ k # 0
                          /\ deviation.deviations[i].actual
                                 = ToString(ToInt(DurationsOf(s, k)[1]))
                                       \o " " \o duration_patterns[k].unit

\* days in one unit of each duration pattern (a month is 30 days, as in
\* duration / 30)
DaysPerUnit == <<30, 365, 1>>

\* the extracted duration of the clause in days (0 = none)
ExtractedDays(s) ==
    LET k == FirstMatchingPattern(s)
    IN  IF k = 0 THEN 0 ELSE ToInt(DurationsOf(s, k)[1]) * DaysPerUnit[k]

\* C20: a clause mentioning "notice" whose extracted duration, in days,
\* exceeds the fair notice period by more than 50% has a medium
\* excessive_notice_period deviation.
C20_NoticeAnyUnit ==
    deviation # NotChecked
        => LET s == lower(clause_text)
               fair_notice_days ==
                   Get(load_fair_contract(fair_file), "notice_period_days", 30)
           IN  (Contains(s, "notice") /\ 2 * ExtractedDays(s) > 3 * fair_notice_days)
                   => HasDeviation("excessive_notice_period", "medium")

\* C21: a clause mentioning "non-compete" or "not compete" that contains a
\* positive duration has a critical non_compete_duration deviation,
\* whatever else it mentions.
C21_NonCompeteCritical ==
    deviation # NotChecked
        => LET s == lower(clause_text)
           IN  (/\ (Contains(s, "non-compete") \/ Contains(s, "not compete"))
                /\ HasPositiveDuration(s))
                   => HasDeviation("non_compete_duration", "critical")

\* the largest fixed per-kind score among the violations, 0 for none
LargestKindScore(vs) ==
    LET S == {SEVERITY_SCORES(vs[i].type) : i \in 1..Len(vs)} \cup {0}
    IN  CHOOSE m \in S : \A x \in S : x <= m

\* C22: the legal-invalidity sub-score (in tenths) is the largest per-kind
\* score of the clause's violations, times 1.2 and capped at 100 exactly
\* when more than one violation is critical; it lies in [0,100] and is 100
\* when two critical violations are present.
C22_LegalInvaliditySubScore ==
    legal_check # NotVerified
        => LET vs == legal_check.violations
               score == calculate_legal_invalidity_score(legal_check)
               m == LargestKindScore(vs)
           IN  /\ score = IF CriticalCount(vs) > 1
                          THEN (IF 12 * m > 1000 THEN 1000 ELSE 12 * m)
                          ELSE 10 * m
               /\ score \in 0..1000
               /\ CriticalCount(vs) >= 2 => score = 1000

\* C22 witness: a clause with two critical violations has been verified
C22_Witness ==
    /\ legal_check # NotVerified
    /\ CriticalCount(legal_check.violations) = 2
    /\ calculate_legal_invalidity_score(legal_check) = 1000

\* low < medium < high < critical
SeverityRank(level) ==
    CASE level = "low" -> 1 [] level = "medium" -> 2
      [] level = "high" -> 3 [] level = "critical" -> 4

\* C27: the risk_level verify_clause returns is at least as severe as the
\* severity of every violation it returns.
C27_LevelCoversFindings ==
    legal_check # NotVerified
        => \A i \in 1..Len(legal_check.violations) :
               SeverityRank(legal_check.risk_level)
                   >= SeverityRank(legal_check.violations[i].severity)

(***************************************************************************)
(* Explanation properties                                                  *)
(***************************************************************************)
\* positions at which w occurs in s
Occurrences(s, w) == {p \in 1..(Len(s) - Len(w) + 1) : StartsWithAt(s, p, w)}

EndsWith(s, w) == Len(s) >= Len(w) /\ SubSeq(s, Len(s) - Len(w) + 1, Len(s)) = w

\* C14: the explanation starts with the clause summary, has the legal
\* context right after it exactly when a law was matched, then one numbered
\* entry for each of the first min(3, n) violations in list order, or the
\* single assessment sentence exactly when n = 0, and ends with the
\* disclaimer, which occurs once.
C14_Template ==
    explanation # NotExplained
        => LET e == explanation
               n == Len(violations)
               shown == Min(3, n)
               head == "**What this clause means:** " \o summarize_clause(clause_text)
               law_at == Occurrences(e, "\n\n**Legal context:** ")
               assess_at == Occurrences(e, "\n\n**Assessment:** ")
               entry_at(k) ==
                   Occurrences(e, "\n" \o ToString(k) \o ". " \o explain_violation(violations[k]))
               note_at == Occurrences(e, disclaimer)
           IN  /\ StartsWithAt(e, 1, head)
               /\ law_at = IF relevant_law # None THEN {Len(head) + 1} ELSE {}
               /\ Cardinality(assess_at) = IF n = 0 THEN 1 ELSE 0
               /\ \A k \in 1..n : Cardinality(entry_at(k)) = IF k <= 3 THEN 1 ELSE 0
               /\ \A k \in 1..(shown - 1) : SetMin(entry_at(k)) < SetMin(entry_at(k + 1))
               /\ Occurrences(e, "\n" \o ToString(shown + 1) \o ". ") = {}
               /\ \A p \in law_at : \A q \in assess_at \cup UNION {entry_at(k) : k \in 1..shown} : p < q
               /\ note_at = {Len(e) - Len(disclaimer) + 1}
               /\ EndsWith(e, disclaimer)

\* C14 witness: four violations and a matched law, explained
C14_Witness ==
    /\ explanation # NotExplained
    /\ Len(violations) = 4
    /\ relevant_law # None
    /\ violations[1] # violations[2]

(***************************************************************************)
(* Session manager properties                                              *)
(***************************************************************************)
\* C15: get_session returns the data of the last store_analysis on the
\* session exactly when the session is in the table and its expiry time has
\* not passed; otherwise it returns None, and an expired session is gone
\* from the table afterwards.
C15_GetSession ==
    got # NotFetched
        => /\ got.result = IF got.existed /\ ~got.expired THEN got.stored ELSE None
           /\ (got.existed /\ got.expired) => got.session_id \notin DOMAIN sessions

\* C15 witness: created, stored, fetched before expiry: the data comes back
C15_Witness ==
    /\ got # NotFetched
    /\ got.existed /\ ~got.expired
    /\ got.result \in AnalysisData
    /\ got.session_id \in DOMAIN sessions

\* C16: a session that from some point on is not accessed any more is
\* eventually removed from the table, and stays removed.
C16_EventuallyDeleted ==
    \A sid \in SessionIds :
        <>[][~Access(sid)]_vars => <>[](sid \notin DOMAIN sessions)

\* C16 witness: the cleanup job has just removed an expired session that
\* held data
C16_Witness ==
    /\ expired_sessions # {}
    /\ \A x \in expired_sessions : x \notin DOMAIN sessions /\ stored[x] # None
    /\ got = NotFetched

\* the session was created and its expiry time has passed, or it is gone
Dead(sid) ==
    /\ sid < next_id
    /\ sid \in DOMAIN sessions => now > sessions[sid].expires_at

\* C25: once a session's expiry time has passed the session stays dead: no
\* operation makes it live again.
C25_DeadStaysDead ==
    [][\A sid \in SessionIds :
           (sid \in DOMAIN sessions /\ now > sessions[sid].expires_at) => Dead(sid)']_vars

(***************************************************************************)
(* Request handling properties                                             *)
(***************************************************************************)
\* number of non-whitespace characters of a text
NonWhitespace(text) == Cardinality({p \in 1..Len(text) : ~IsSpace(Char(text, p))})

\* C11: an extracted text with fewer than 50 non-whitespace characters is
\* rejected with "Insufficient text extracted"; it is never segmented and no
\* clause of it is analysed.
C11_ShortTextRejected ==
    /\ (req_pc \in {"analyze", "finish"} \/ clauses # <<>> \/ results # <<>>
            \/ response.status = 200)
           => NonWhitespace(doc_text) >= 50
    /\ (req_pc = "done" /\ doc_text # "" /\ NonWhitespace(doc_text) < 50)
           => response = BadRequest("Insufficient text extracted")

\* the reasons of the input errors
InputErrors ==
    {"No file provided", "Empty filename", "Unsupported file type",
     "Insufficient text extracted", "No clauses found"}

\* what the handler's checks reject
InputError ==
    \/ ~request.has_file
    \/ request.filename = ""
    \/ lower(splitext(request.filename)) \notin allowed_extensions
    \/ (doc_text # "" /\ (insufficient_text(doc_text) \/ clauses = <<>>))

\* C12: a request with an input error is answered 400 with one of the
\* reasons and nothing else; no clause result exists and the request's
\* session, if one was created, holds no data.  Clause analysis is reached
\* only without input error.
C12_RejectedWithoutPartialResult ==
    /\ response.status = 400
           => /\ response.error \in InputErrors
              /\ DOMAIN response = {"status", "error"}
              /\ results = <<>>
              /\ session_id \in DOMAIN sessions => sessions[session_id].data = None
    /\ (req_pc = "done" /\ InputError) => response.status = 400
    /\ req_pc \in {"analyze", "finish"} => ~InputError

\* C12 witness: rejected for zero clauses after the session was created
C12_Witness ==
    /\ req_pc = "done"
    /\ response = BadRequest("No clauses found")
    /\ session_id \in DOMAIN sessions
    /\ sessions[session_id].data = None

\* C13: when the law retrieval raised for a clause, the request still
\* returns the full analysis, with a null law for that clause; when the AI
\* service failed, the request still succeeds.
C13_CollaboratorFailureTolerated ==
    /\ (req_pc = "done" /\ retrieval_failed_at # 0)
           => /\ response.status = 200
              /\ Len(response.analysis) = Len(clauses)
              /\ response.analysis[retrieval_failed_at].relevant_law = None
    /\ (req_pc = "done" /\ results # <<>> /\ Len(results) = Len(clauses))
           => response.status = 200

\* C24: all clauses of one request are evaluated by the deviation engine
\* against one and the same fairness standard.
C24_OneStandardPerAnalysis ==
    results # <<>>
        => \E file \in FairFiles :
               \A i \in 1..Len(results) :
                   results[i].deviation = check_deviation(results[i].clause_text, file)

\* C26: after the response of a request that did not succeed, the session
\* store holds no session created by that request.
C26_NoSessionLeftBehind ==
    (req_pc = "done" /\ response.status # 200) => session_id \notin DOMAIN sessions

\* the whole document has been analysed
DocumentAnalysed == req_pc = "finish" /\ Len(results) = Len(clauses)

\* C28 as stated: a document with a clause whose rule-engine risk_level is
\* "critical" has the aggregate risk_level "critical".
C28_CriticalRuleLevelWins ==
    DocumentAnalysed
        => ((\E i \in 1..Len(results) : results[i].legal_check.risk_level = "critical")
               => aggregate_document_risk(results).risk_level = "critical")

\* C28 amended: a document with a clause whose risk score is in the
\* critical band (85 and above) has the aggregate risk_level "critical".
C28_CriticalScoreWins ==
    DocumentAnalysed
        => ((\E i \in 1..Len(results) : results[i].risk_score >= 8500)
               => aggregate_document_risk(results).risk_level = "critical")

\* C28 witness: one clause in the critical band, the mean score below it
C28_Witness ==
    /\ DocumentAnalysed
    /\ Cardinality({i \in 1..Len(results) : results[i].risk_score >= 8500}) = 1
    /\ aggregate_document_risk(results).overall_score < 8500
    /\ aggregate_document_risk(results).risk_level = "critical"

(***************************************************************************)
(* Concurrency properties                                                  *)
(***************************************************************************)
\* C29: the law index is constructed at most once, and no request reaches
\* its handler while vector_store is unset.
C29_BuiltAtMostOnce ==
    /\ built <= 1
    /\ \A t \in Threads : worker[t].pc = "analysis" => worker[t].index # None

\* C30: with the methods running in different threads, at most one thread
\* is inside the lock, no method raises because a session it found was
\* removed meanwhile (no session is deleted twice), a session a method
\* found is still in the table when the method acts on it, and the
\* sessions cleanup is about to delete are in the table with their expiry
\* passed.
C30_AtomicOperations ==
    /\ Cardinality(lock) <= 1
    /\ \A t \in Threads :
        /\ calls[t].pc # "raised"
        /\ calls[t].pc = "act" =>
            /\ calls[t].op \in KeyedOps =>
                   (calls[t].found <=> calls[t].sid \in DOMAIN sessions)
            /\ \A x \in calls[t].expired :
                   x \in DOMAIN sessions /\ now > sessions[x].expires_at

\* cleanup holds the lock and is about to delete an expired session, the
\* clock has moved since it read the time, and another thread is waiting
\* to delete the same session
C30_Witness ==
    \E t \in Threads, u \in Threads :
        /\ calls[t].op = "cleanup_expired_sessions" /\ calls[t].pc = "act"
        /\ calls[t].expired # {}
        /\ now > calls[t].read_at
        /\ calls[u].op \in {"delete_session", "get_session"} /\ calls[u].pc = "wait"
        /\ calls[u].sid \in calls[t].expired

(***************************************************************************)
(* Segmenter properties                                                    *)
(***************************************************************************)
\* the numbering patterns with at least 3 matches in s
EligiblePatterns(s) ==
    {k \in NumberingPatterns : Len(MarkerStartsFrom(s, 1, k)) >= 3}

\* C23: structural segmentation cuts at the matches of the first numbering
\* pattern, in priority order, that has at least 3 matches, whatever later
\* patterns match; split_clauses segments by sentences exactly when no
\* pattern has 3 matches, and filters afterwards.
C23_PatternPriority ==
    seg_pc = "split_done"
        => LET s == normalize_text(doc_text)
               eligible == EligiblePatterns(s)
               structural == split_by_numbered_sections(s)
           IN  IF eligible = {}
               THEN /\ structural = <<>>
                    /\ clauses = filter_clauses(split_by_sentences(s))
               ELSE /\ structural = SectionsAt(s, MarkerStartsFrom(s, 1, SetMin(eligible)))
                    /\ Len(structural) >= 3
                    /\ clauses = filter_clauses(structural)

\* C23 witness: two patterns have 3 matches and the structural clauses
\* are fewer than 3 after filtering
C23_Witness ==
    /\ seg_pc = "split_done"
    /\ Cardinality(EligiblePatterns(normalize_text(doc_text))) >= 2
    /\ Len(split_by_numbered_sections(normalize_text(doc_text))) >= 3
    /\ Len(clauses) \in 1..2

\* C8: segmenting a clause that split_clauses returned gives back exactly
\* that one clause.
C8_Idempotent ==
    seg_pc = "resegmented" => reseg.result = <<reseg.clause>>

====
